---- MODULE Spec2Model ----
(***************************************************************************)
(* A model of the music search page: CacheManager (the TTL + LRU cache in  *)
(* one localStorage document, src/js/modules/ThemeManager.js:73-184) and   *)
(* MusicPlayer's search fan-out, merge and detail lookup                   *)
(* (src/js/modules/MusicPlayer.js).                                        *)
(*                                                                         *)
(* Conventions.                                                            *)
(*  - A JavaScript string is a sequence of one-character tokens.  The      *)
(*    two non-ASCII letters U+00E9 and U+00C9 (e-acute, small and capital) *)
(*    are written "U+00E9" and "U+00C9".                                   *)
(*  - The clock is read in whole hours: Date.now() is now * 3600000 ms, so *)
(*    the hoursDiff of isExpired is a difference of two clock readings.    *)
(*  - A call that throws is a result record whose field threw is TRUE.     *)
(***************************************************************************)
EXTENDS Integers, Sequences, FiniteSets, TLC

VARIABLES
    doc,        \* localStorage item 'musicCache': the persisted cache document
    now,        \* Date.now(), in hours
    last,       \* the most recent CacheManager call and what it returned
    merge,      \* one call of mergeResults: its three source lists and its result
    validation, \* one call of a validator or of mapQuality: argument and result
    input,      \* the value of the search box (#searchInput)
    search,     \* the activation of searchSongs: where it is and what it did
    stale,      \* an older activation of searchSongs that is still in flight
    started,    \* the number of searches started so far
    rendered,   \* the content of the result list (#songList)
    btnDisabled, \* the search button is disabled and shows the busy label
    detail,     \* the activation of showSongDetail
    shown,      \* the content of the detail panel (#songDetail)
    toastQueue, \* Utils.toastQueue: the toasts waiting to be displayed
    isShowingToast, \* Utils.isShowingToast
    body,       \* the toast elements in document.body, in document order
    toastLog,   \* the messages showToast was called with, and those displayed
    timers,     \* the pending debounce timers, oldest first: the time each has run
    sinceInput, \* the time since the last input event on the search box
    dataTheme,  \* the data-theme attribute of the document element
    musicTheme, \* localStorage item 'musicTheme'
    themeCall,  \* the most recent call of changeTheme and what it did
    audios,     \* the audio elements created so far, in order of creation
    currentAudio, \* MusicPlayer.currentAudio: an index into audios, 0 for null
    renders     \* the number of details rendered so far

cacheVars == <<doc, now, last>>
callVars == <<merge, validation>>
searchVars == <<input, search, stale, started, rendered, btnDisabled>>
detailVars == <<detail, shown>>
pageVars == <<searchVars, detailVars>>
toastVars == <<toastQueue, isShowingToast, body, toastLog>>
timerVars == <<timers, sinceInput>>
themeVars == <<dataTheme, musicTheme, themeCall>>
audioVars == <<audios, currentAudio, renders>>
vars == <<doc, now, last, merge, validation, input, search, stale, started,
          rendered, btnDisabled, detail, shown, toastQueue, isShowingToast, body,
          toastLog, timers, sinceInput, dataTheme, musicTheme, themeCall, audios,
          currentAudio, renders>>

(***************************************************************************)
(* Bounds of the model.                                                    *)
(***************************************************************************)
\* config.maxItems is 15 in the source (ThemeManager.js:78).  The sweep reads
\* it only in `keys.length > maxItems` and `keys.length - maxItems`; the model
\* checks the same code for a capacity of maxItems entries.
maxItems == 2
\* The clock stops at MaxTime hours.
MaxTime == 3
\* The longest list one source contributes to a merge.
MaxSourceLen == 2
\* The number of searches started in one behaviour.
MaxSearches == 2
MaxToasts == 3
MaxIdle == 3
MaxRenders == 4

(***************************************************************************)
(* Program constants.                                                      *)
(***************************************************************************)
expireHours == 2

(***************************************************************************)
(* JavaScript strings.                                                     *)
(***************************************************************************)
\* String.prototype.toLowerCase on one character (Unicode case mapping).
CharToLowerCase(c) ==
    CASE c = "A" -> "a"
      [] c = "B" -> "b"
      [] c = "C" -> "c"
      [] c = "S" -> "s"
      [] c = "X" -> "x"
      [] c = "U+00C9" -> "U+00E9"
      [] OTHER -> c

toLowerCase(s) == [i \in 1..Len(s) |-> CharToLowerCase(s[i])]

\* encodeURIComponent on one character: unreserved ASCII is kept, everything
\* else becomes the %XX escapes of its UTF-8 bytes (upper-case hex digits).
EncodeChar(c) ==
    CASE c = "U+00E9" -> <<"%", "C", "3", "%", "A", "9">>
      [] c = "U+00C9" -> <<"%", "C", "3", "%", "8", "9">>
      [] c = " " -> <<"%", "2", "0">>
      [] c = "|" -> <<"%", "7", "C">>
      [] c = "%" -> <<"%", "2", "5">>
      [] OTHER -> <<c>>

RECURSIVE encodeURIComponent(_)
encodeURIComponent(s) ==
    IF s = <<>> THEN <<>> ELSE EncodeChar(Head(s)) \o encodeURIComponent(Tail(s))

(***************************************************************************)
(* CacheManager.                                                           *)
(***************************************************************************)
\* The persisted document: absent (getItem returns null), text that is not
\* JSON, or a JSON object, held as the sequence of its entries in property
\* order (Object.keys order: insertion order, kept by JSON.stringify/parse).
NoDoc == [kind |-> "absent", obj |-> <<>>]
MalformedDoc == [kind |-> "malformed", obj |-> <<>>]
JsonDoc(cache) == [kind |-> "json", obj |-> cache]

\* JSON.parse(localStorage.getItem(storageKey)) || {} : JSON.parse(null) is
\* null, malformed text makes JSON.parse throw a SyntaxError.
ParseThrows(d) == d.kind = "malformed"
ParsedOrEmpty(d) == IF d.kind = "json" THEN d.obj ELSE <<>>

\* generateKey without toLowerCase.
generateKeyNoLower(query) == <<"multisearch_">> \o encodeURIComponent(query)
generateKey(query) == <<"multisearch_">> \o toLowerCase(encodeURIComponent(query))

\* Position of `key` in the object, 0 when it has no such property.
IndexOf(cache, key) ==
    IF \E i \in 1..Len(cache) : cache[i].key = key
    THEN CHOOSE i \in 1..Len(cache) : cache[i].key = key
    ELSE 0

Keys(cache) == {cache[i].key : i \in 1..Len(cache)}

\* isExpired without its end: no entry ever expires.
isExpiredNever(timestamp, t) == FALSE
\* isExpired comparing the difference in milliseconds with expireHours.
isExpiredInMilliseconds(timestamp, t) ==
    LET msDiff == (t - timestamp) * 3600000
    IN msDiff > expireHours
\* (Date.now() - timestamp) / (1000 * 60 * 60) > expireHours, the clock in hours.
isExpired(timestamp, t) ==
    LET hoursDiff == t - timestamp
    IN hoursDiff > expireHours

\* keys.sort((a, b) => cache[a].lru - cache[b].lru): Array.prototype.sort is
\* stable, so equal lru keep their property order.  Insertion sort.
RECURSIVE InsertByLru(_, _)
InsertByLru(sorted, e) ==
    IF sorted = <<>> THEN <<e>>
    ELSE IF e.lru < Head(sorted).lru THEN <<e>> \o sorted
    ELSE <<Head(sorted)>> \o InsertByLru(Tail(sorted), e)

RECURSIVE SortByLru(_)
SortByLru(s) ==
    IF s = <<>> THEN <<>>
    ELSE InsertByLru(SortByLru(SubSeq(s, 1, Len(s) - 1)), s[Len(s)])

\* A first phase that deletes nothing.
DropExpiredNone(cache, t) == cache
\* The first phase of cleanCache: delete every expired property.
DropExpired(cache, t) ==
    LET Fresh(e) == ~isExpired(e.timestamp, t)
    IN SelectSeq(cache, Fresh)

\* The second phase deleting keys.slice(maxItems): the most recently used.
LruVictimsNewest(fresh) ==
    IF Len(fresh) > maxItems
    THEN LET sorted == SortByLru(fresh)
         IN {sorted[i].key : i \in (maxItems + 1)..Len(sorted)}
    ELSE {}
\* The second phase making room for the entry that set is about to write.
LruVictimsEager(fresh) ==
    IF Len(fresh) > maxItems - 1
    THEN LET sorted == SortByLru(fresh)
         IN {sorted[i].key : i \in 1..(Len(sorted) - (maxItems - 1))}
    ELSE {}
\* The keys the second phase of cleanCache deletes:
\* keys.slice(0, keys.length - maxItems) of the keys sorted by lru.
LruVictims(fresh) ==
    IF Len(fresh) > maxItems
    THEN LET sorted == SortByLru(fresh)
         IN {sorted[i].key : i \in 1..(Len(sorted) - maxItems)}
    ELSE {}

cleanCache(cache, t) ==
    LET fresh == DropExpired(cache, t)
        victims == LruVictims(fresh)
        Kept(e) == e.key \notin victims
    IN SelectSeq(fresh, Kept)

\* cache[key] = value: an existing property keeps its place, a new one is
\* appended.
PutEntry(cache, entry) ==
    LET i == IndexOf(cache, entry.key)
    IN IF i = 0 THEN Append(cache, entry) ELSE [cache EXCEPT ![i] = entry]

\* A touch that restarts the entry's life: it sets timestamp as well.
updateLRUAndTimestamp(cache, key, t) ==
    LET i == IndexOf(cache, key)
    IN IF i = 0 THEN cache ELSE [cache EXCEPT ![i].lru = t, ![i].timestamp = t]
updateLRU(cache, key, t) ==
    LET i == IndexOf(cache, key)
    IN IF i = 0 THEN cache ELSE [cache EXCEPT ![i].lru = t]

\* JavaScript values held as cache payloads.
JsArray(items) == [type |-> "array", items |-> items]
IsArray(v) == v.type = "array"
Null == [type |-> "null"]

\* CacheManager.get: [threw, ret, doc].
get(d, query, t) ==
    IF ParseThrows(d) THEN [threw |-> TRUE, ret |-> Null, doc |-> d]
    ELSE
        LET cache == ParsedOrEmpty(d)
            key == generateKey(query)
            i == IndexOf(cache, key)
        IN IF i # 0 /\ ~isExpired(cache[i].timestamp, t)
           THEN [threw |-> FALSE,
                 ret |-> IF IsArray(cache[i].data) THEN cache[i].data ELSE JsArray(<<>>),
                 doc |-> JsonDoc(updateLRU(cache, key, t))]
           ELSE [threw |-> FALSE, ret |-> Null, doc |-> d]

\* CacheManager.set: [threw, doc, evicted]; evicted is the set of keys that the
\* second phase of its cleanCache call deleted.
set(d, query, data, t) ==
    IF ParseThrows(d) THEN [threw |-> TRUE, doc |-> d, evicted |-> {}]
    ELSE
        LET cache == cleanCache(ParsedOrEmpty(d), t)
            key == generateKey(query)
        IN [threw |-> FALSE,
            doc |-> JsonDoc(PutEntry(cache,
                       [key |-> key, data |-> data, timestamp |-> t, lru |-> t])),
            evicted |-> LruVictims(DropExpired(ParsedOrEmpty(d), t))]

\* CacheManager.deleteKey: [threw, doc].
deleteKey(d, query) ==
    IF ParseThrows(d) THEN [threw |-> TRUE, doc |-> d]
    ELSE
        LET key == generateKey(query)
            NotKey(e) == e.key # key
        IN [threw |-> FALSE, doc |-> JsonDoc(SelectSeq(ParsedOrEmpty(d), NotKey))]

\* A clear that leaves the item in localStorage.
clearNothing(d) == d
\* CacheManager.clear: localStorage.removeItem.
clear(d) == NoDoc

(***************************************************************************)
(* MusicPlayer: result items and mergeResults.                             *)
(***************************************************************************)
\* The three sources, in the order of the fan-out: 'QQ音乐', '网易云', '酷狗音乐'.
QQ == "QQ"
NetEase == "NetEase"
Kugou == "Kugou"
Sources == <<QQ, NetEase, Kugou>>

\* JavaScript undefined, and `v || ''` followed by String(): a string value is
\* falsy only when empty.
Undefined == <<"(undefined)">>
StringOrEmpty(v) == IF v = Undefined \/ v = <<>> THEN <<>> ELSE v

\* The key of mergeResults: `${title.toLowerCase()}|${artist.toLowerCase()}`.
mergeKeyCaseSensitive(item) ==
    StringOrEmpty(item.title) \o <<"|">> \o StringOrEmpty(item.artist)
mergeKey(item) ==
    LET title == StringOrEmpty(item.title)
        artist == StringOrEmpty(item.artist)
    IN toLowerCase(title) \o <<"|">> \o toLowerCase(artist)

\* data.filter(item => seen.has(key) ? false : seen.add(key)), seen a Set that
\* starts empty: MergeFrom is the filter from position i on.
RECURSIVE MergeFrom(_, _, _)
MergeFrom(data, i, seen) ==
    IF i > Len(data) THEN <<>>
    ELSE LET key == mergeKey(data[i])
         IN IF key \in seen
            THEN MergeFrom(data, i + 1, seen)
            ELSE <<data[i]>> \o MergeFrom(data, i + 1, seen \cup {key})

mergeResults(data) == MergeFrom(data, 1, {})

\* No call of mergeResults is being followed.
NoMerge == [state |-> "none"]

(***************************************************************************)
(* MusicPlayer: searchSongs.                                               *)
(***************************************************************************)
\* String.prototype.trim.
RECURSIVE trimStart(_)
trimStart(s) == IF s # <<>> /\ Head(s) = " " THEN trimStart(Tail(s)) ELSE s
RECURSIVE trimEnd(_)
trimEnd(s) ==
    IF s # <<>> /\ s[Len(s)] = " " THEN trimEnd(SubSeq(s, 1, Len(s) - 1)) ELSE s
trim(s) == trimEnd(trimStart(s))

\* Utils.escapeHtml: textContent to innerHTML escapes &, < and >.
EscapeChar(c) ==
    CASE c = "&" -> <<"&", "a", "m", "p", ";">>
      [] c = "<" -> <<"&", "l", "t", ";">>
      [] c = ">" -> <<"&", "g", "t", ";">>
      [] OTHER -> <<c>>
RECURSIVE escapeHtml(_)
escapeHtml(s) == IF s = <<>> THEN <<>> ELSE EscapeChar(Head(s)) \o escapeHtml(Tail(s))

\* A lookup with no fallback: qualityMap[br].
mapQualityNoFallback(br) ==
    CASE br = 1 -> "standard"
      [] br = 2 -> "high"
      [] br = 3 -> "lossless"
      [] br = 4 -> "Hi-Res"
      [] br = 5 -> "hd-surround"
      [] br = 6 -> "immersive-surround"
      [] br = 7 -> "master"
      [] br = 8 -> "HQ"
      [] OTHER -> "undefined"
\* mapQuality: codes 1 to 8 have a label ('标准音质', '高品音质', '无损音质',
\* 'Hi-Res', '高清环绕声', '沉浸环绕声', '超清母带', 'HQ高品质'), every other code
\* is '未知音质'.
mapQuality(br) ==
    CASE br = 1 -> "standard"
      [] br = 2 -> "high"
      [] br = 3 -> "lossless"
      [] br = 4 -> "Hi-Res"
      [] br = 5 -> "hd-surround"
      [] br = 6 -> "immersive-surround"
      [] br = 7 -> "master"
      [] br = 8 -> "HQ"
      [] OTHER -> "unknown"

\* A raw response body: null, or an object with a code and a data field.  A
\* raw song is null or an object; its missing quality is "" and its missing br
\* is 0 (both falsy).
RawResponse(code, data) == [type |-> "object", code |-> code, data |-> data]
String(v) == IF v = Undefined THEN <<"undefined">> ELSE v
HasNullItem(list) == \E i \in 1..Len(list) : list[i] = Null

\* The validators: [threw, value].  response.data.map(song => ...) throws a
\* TypeError on a song that is null.
validateDataAPI1(response) ==
    IF response = Null \/ response.code # 200 \/ ~IsArray(response.data)
    THEN [threw |-> FALSE, value |-> <<>>]
    ELSE IF HasNullItem(response.data.items) THEN [threw |-> TRUE, value |-> <<>>]
    ELSE [threw |-> FALSE,
          value |-> [i \in 1..Len(response.data.items) |->
                        LET song == response.data.items[i]
                        IN [source |-> QQ,
                            id |-> song.n,
                            title |-> String(song.song_title),
                            artist |-> song.song_singer,
                            quality |-> IF song.quality = "" THEN "standard"
                                        ELSE song.quality]]]

validateDataAPI2(response) ==
    IF response = Null \/ response.code # 200 \/ ~IsArray(response.data)
    THEN [threw |-> FALSE, value |-> <<>>]
    ELSE IF HasNullItem(response.data.items) THEN [threw |-> TRUE, value |-> <<>>]
    ELSE [threw |-> FALSE,
          value |-> [i \in 1..Len(response.data.items) |->
                        LET song == response.data.items[i]
                        IN [source |-> NetEase,
                            id |-> song.n,
                            title |-> String(song.title),
                            artist |-> song.singer,
                            quality |-> mapQuality(IF song.br = 0 THEN 1 ELSE song.br)]]]

validateDataAPI3(response) ==
    IF response = Null \/ ~IsArray(response.data)
    THEN [threw |-> FALSE, value |-> <<>>]
    ELSE IF HasNullItem(response.data.items) THEN [threw |-> TRUE, value |-> <<>>]
    ELSE [threw |-> FALSE,
          value |-> [i \in 1..Len(response.data.items) |->
                        LET song == response.data.items[i]
                        IN [source |-> Kugou,
                            id |-> song.n,
                            title |-> String(song.title),
                            artist |-> song.singer,
                            quality |-> mapQuality(IF song.br = 0 THEN 1 ELSE song.br)]]]

\* No validator has been called.
NoValidation == [state |-> "none"]

\* The outcome of one safeFetch: not settled yet, rejected (network failure,
\* HTTP error status or timeout) or fulfilled with the parsed body.
Pending == [status |-> "pending"]
Rejected == [status |-> "rejected"]
Fulfilled(value) == [status |-> "fulfilled", value |-> value]

\* apiNResponse.status === 'fulfilled' ? this.validateDataAPIN(value) : []
validated(source, outcome) ==
    IF outcome.status = "fulfilled"
    THEN CASE source = QQ -> validateDataAPI1(outcome.value)
           [] source = NetEase -> validateDataAPI2(outcome.value)
           [] source = Kugou -> validateDataAPI3(outcome.value)
    ELSE [threw |-> FALSE, value |-> <<>>]

\* await Promise.all([...]) throws when one of the requests was rejected.
PromiseAll(resp) ==
    [threw |-> \E i \in 1..Len(Sources) : resp[Sources[i]].status = "rejected",
     value |-> resp]
\* await Promise.allSettled([...]) never throws: it yields the three outcomes.
PromiseAllSettled(resp) == [threw |-> FALSE, value |-> resp]

\* The promise of Promise.all([...]) settles: a request was rejected, or every
\* request was fulfilled.
PromiseAllResolved(resp) ==
    \/ \E i \in 1..Len(Sources) : resp[Sources[i]].status = "rejected"
    \/ \A i \in 1..Len(Sources) : resp[Sources[i]].status = "fulfilled"
\* The promise of Promise.allSettled([...]) settles: every request has settled,
\* fulfilled or rejected.
PromiseAllSettledResolved(resp) ==
    \A i \in 1..Len(Sources) : resp[Sources[i]].status \in {"fulfilled", "rejected"}

\* if (cachedData), read as "the cached list has items".
TruthyNonEmpty(v) == v # Null /\ v.items # <<>>
\* if (cachedData): null is falsy, every array is truthy, the empty one too.
Truthy(v) == v # Null

\* CacheManager.set(query, mergedData) whatever the list holds.
storeMergedAlways(d, query, mergedData, t) ==
    LET r == set(d, query, JsArray(mergedData), t)
    IN [threw |-> r.threw, doc |-> r.doc, called |-> TRUE]
\* CacheManager.set writing back the document the search found when it began,
\* with the new entry.
storeMergedOnSnapshot(d, query, mergedData, t) ==
    IF Len(mergedData) > 0
    THEN LET r == set(search.docRead, query, JsArray(mergedData), t)
         IN [threw |-> r.threw, doc |-> r.doc, called |-> TRUE]
    ELSE [threw |-> FALSE, doc |-> d, called |-> FALSE]
\* if (mergedData.length > 0) CacheManager.set(query, mergedData):
\* [threw, doc, called].
storeMerged(d, query, mergedData, t) ==
    IF Len(mergedData) > 0
    THEN LET r == set(d, query, JsArray(mergedData), t)
         IN [threw |-> r.threw, doc |-> r.doc, called |-> TRUE]
    ELSE [threw |-> FALSE, doc |-> d, called |-> FALSE]

\* The activation of searchSongs: none yet; suspended at the await; returned.
\* cachedData: what CacheManager.get returned (null when it threw).
\* requested: the sources a request was issued to.  calls: the calls it made
\* so far, in order ("get", "fetch" for the three requests, "set", "render").
\* notice: the toast it raised ("none", "error", "cached").  docRead: the
\* document CacheManager.get found in localStorage when the search began.
NoSearch == [pc |-> "idle"]
Began(query, trigger, cachedData, docRead) ==
    [query |-> query, trigger |-> trigger, cachedData |-> cachedData,
     docRead |-> docRead, requested |-> {}, resp |-> <<>>, calls |-> <<"get">>]
Awaiting(activation) ==
    [pc |-> "await", query |-> activation.query, trigger |-> activation.trigger,
     cachedData |-> activation.cachedData, docRead |-> activation.docRead,
     requested |-> {Sources[i] : i \in 1..Len(Sources)},
     resp |-> [src \in {Sources[i] : i \in 1..Len(Sources)} |-> Pending],
     calls |-> Append(activation.calls, "fetch")]
Returned(activation, calls, notice) ==
    [pc |-> "done", query |-> activation.query, trigger |-> activation.trigger,
     cachedData |-> activation.cachedData, docRead |-> activation.docRead,
     requested |-> activation.requested, resp |-> activation.resp,
     calls |-> calls, notice |-> notice]

\* renderResults(data): each item's dataset.query is the escaped value the
\* search box has when the list is rendered.
NotRendered == [state |-> "initial"]
renderResults(data, value, fromCache) ==
    [state |-> "list", items |-> data, query |-> escapeHtml(value),
     cached |-> fromCache]
\* showCachedResults(data, query): the list, under a header whose refresh
\* button keeps `query`.
showCachedResults(data, query, value) ==
    [state |-> "list", items |-> data, query |-> escapeHtml(value),
     cached |-> TRUE, refreshes |-> query]

\* What searchSongs does up to its await, with the document d, the search box
\* value and the clock reading t: [activation, doc, renders, list, busy].
searchSongsToAwait(d, value, t, trigger) ==
    LET query == trim(value)
        cached == get(d, query, t)
        began == Began(query, trigger, cached.ret, d)
    IN IF cached.threw
       THEN \* catch: showToast('搜索失败: ...'); finally: the button is reset
            [activation |-> Returned(began, began.calls, "error"), doc |-> d,
             renders |-> FALSE, list |-> <<>>, busy |-> FALSE]
       ELSE IF Truthy(cached.ret)
       THEN \* showCachedResults(cachedData, query); return
            [activation |-> Returned(began, Append(began.calls, "render"), "cached"),
             doc |-> cached.doc,
             renders |-> TRUE, list |-> cached.ret.items, busy |-> FALSE]
       ELSE [activation |-> Awaiting(began), doc |-> cached.doc,
             renders |-> FALSE, list |-> <<>>, busy |-> TRUE]

\* What searchSongs does after its await: validate, merge, cache, render:
\* [activation, doc, renders, list].
searchSongsAfterAwait(activation, d, t) ==
    LET settled == PromiseAllSettled(activation.resp)
        v1 == validated(QQ, settled.value[QQ])
        v2 == validated(NetEase, settled.value[NetEase])
        v3 == validated(Kugou, settled.value[Kugou])
        mergedData == mergeResults(v1.value \o v2.value \o v3.value)
        stored == storeMerged(d, activation.query, mergedData, t)
        calls == IF stored.called THEN Append(activation.calls, "set")
                 ELSE activation.calls
    IN IF settled.threw \/ v1.threw \/ v2.threw \/ v3.threw
       THEN [activation |-> Returned(activation, activation.calls, "error"),
             doc |-> d, renders |-> FALSE, list |-> <<>>]
       ELSE IF stored.threw
       THEN [activation |-> Returned(activation, calls, "error"),
             doc |-> d, renders |-> FALSE, list |-> <<>>]
       ELSE [activation |-> Returned(activation, Append(calls, "render"), "none"),
             doc |-> stored.doc, renders |-> TRUE, list |-> mergedData]

(***************************************************************************)
(* MusicPlayer: the audio element of the detail panel.  The handlers of    *)
(* showSongDetail above record what the panel shows; the audio elements    *)
(* are driven by SpecAudio, where a detail with or without a stream URL is *)
(* rendered at any time.                                                   *)
(***************************************************************************)
\* An audio element the detail markup has just created: in the document, not
\* playing.  stopped: what paused it last while it was playing.
AudioElement(song) ==
    [song |-> song, inDocument |-> TRUE, playing |-> FALSE, stopped |-> "never"]

\* element.pause(), by `cause`.
pause(element, cause) ==
    IF element.playing
    THEN [element EXCEPT !.playing = FALSE, !.stopped = cause]
    ELSE element

\* The old content leaving the document with its audio element still playing.
replaceContentKeepsPlaying(elements) ==
    [i \in 1..Len(elements) |-> [elements[i] EXCEPT !.inDocument = FALSE]]
\* detailContainer.innerHTML = ...: the old content leaves the document.  The
\* browser pauses a media element that is removed from its document (HTML
\* Standard, media elements: removal runs the internal pause steps).
replaceContent(elements) ==
    [i \in 1..Len(elements) |->
        IF elements[i].inDocument
        THEN [pause(elements[i], "removed") EXCEPT !.inDocument = FALSE]
        ELSE elements[i]]

\* setupAudioHandling(audioElement), the element being the last of `elements`:
\* [audios, current].
setupAudioHandling(elements, current) ==
    [audios |-> IF current # 0
                THEN [elements EXCEPT ![current] = pause(elements[current], "setup")]
                ELSE elements,
     current |-> Len(elements)]

\* renderSongDetail from its innerHTML assignment on, for a detail with a
\* stream URL (musicUrl) or without: [audios, current].
renderAudio(elements, current, song, musicUrl) ==
    LET old == replaceContent(elements)
    IN IF musicUrl
       THEN setupAudioHandling(Append(old, AudioElement(song)), current)
       ELSE [audios |-> old, current |-> current]

(***************************************************************************)
(* ThemeManager.                                                           *)
(***************************************************************************)
availableThemes ==
    {"light", "dark", "vintage", "eye-care", "purple", "tech-blue", "warm-red",
     "nature-green", "minimal-gray", "cyberpunk"}
\* No data-theme attribute; no 'musicTheme' item (getItem returns null).
NoTheme == "(none)"
NoThemeCall == [kind |-> "none"]

\* changeTheme applying whatever it is given.
changeThemeUnchecked(theme, applied, stored) ==
    [applied |-> theme, stored |-> theme, notice |-> "none"]
\* ThemeManager.changeTheme(theme): [applied, stored, notice].
changeTheme(theme, applied, stored) ==
    IF theme \in availableThemes
    THEN [applied |-> theme, stored |-> theme, notice |-> "none"]
    ELSE [applied |-> applied, stored |-> stored, notice |-> "warning"]

\* The theme state after the call r of changeTheme(theme).
ThemeBecomes(r, theme, kind) ==
    /\ dataTheme' = r.applied
    /\ musicTheme' = r.stored
    /\ themeCall' = [kind |-> kind, theme |-> theme, notice |-> r.notice,
                     applied |-> dataTheme, stored |-> musicTheme]

(***************************************************************************)
(* bindEvents: the debounce timer of the search box.  Time is counted in   *)
(* quarters of a second.                                                   *)
(***************************************************************************)
\* The delay of the debounce timer: 500 ms.
DebounceDelay == 2
\* The input handler without its clearTimeout.
clearTimeoutNothing(pending) == pending
\* clearTimeout(searchTimeout): searchTimeout names the timer set last; when it
\* is still pending it is cancelled.
clearTimeout(pending) ==
    IF Len(pending) = 0 THEN pending ELSE SubSeq(pending, 1, Len(pending) - 1)
\* searchTimeout = setTimeout(..., 500): one more pending timer.
setTimeout(pending) == Append(pending, 0)

(***************************************************************************)
(* Utils: the toast queue.  The handlers above and below record the toast  *)
(* they raise as the notice of their activation; the queue itself is       *)
(* driven by SpecToast, where showToast is called with any of the messages *)
(* at any time.                                                            *)
(***************************************************************************)
\* A toast element: appended to document.body ("added"), given the class
\* toast-visible 10 ms later ("visible"), stripped of it after 3000 ms
\* ("fading") and removed 300 ms after that.
ToastElement(message) == [message |-> message, phase |-> "added"]

\* processToastQueue leaving isShowingToast set when the queue is empty.
processToastQueueKeepsFlag(queue, elements) ==
    IF Len(queue) = 0
    THEN [queue |-> queue, showing |-> TRUE, body |-> elements]
    ELSE [queue |-> Tail(queue), showing |-> TRUE,
          body |-> Append(elements, ToastElement(Head(queue)))]
\* Utils.processToastQueue(): [queue, showing, body].
processToastQueue(queue, elements) ==
    IF Len(queue) = 0
    THEN [queue |-> queue, showing |-> FALSE, body |-> elements]
    ELSE [queue |-> Tail(queue), showing |-> TRUE,
          body |-> Append(elements, ToastElement(Head(queue)))]

\* showToast without a queue: the toast is appended to document.body at once.
showToastUnqueued(queue, showing, elements, message) ==
    [queue |-> queue, showing |-> showing,
     body |-> Append(elements, ToastElement(message))]
\* Utils.showToast(message, type): [queue, showing, body].
showToast(queue, showing, elements, message) ==
    LET pushed == Append(queue, message)
    IN IF ~showing
       THEN processToastQueue(pushed, elements)
       ELSE [queue |-> pushed, showing |-> showing, body |-> elements]

\* The toast state after a call r of showToast or processToastQueue made with
\* the elements `before` in the body; the log gets the message of the element
\* the call appended, if any.
ToastsBecome(r, before, called) ==
    /\ toastQueue' = r.queue
    /\ isShowingToast' = r.showing
    /\ body' = r.body
    /\ toastLog' = [called |-> called,
                    shown |-> IF Len(r.body) > Len(before)
                              THEN Append(toastLog.shown, r.body[Len(r.body)].message)
                              ELSE toastLog.shown]

\* A call of searchSongs with the document d, up to its await or its return.
\* A search that was in flight goes on as the stale one.
searchSongsFrom(d, trigger) ==
    LET r == searchSongsToAwait(d, input, now, trigger)
    IN /\ started' = started + 1
       /\ search' = r.activation
       /\ stale' = IF search.pc = "await" THEN search
                   ELSE IF stale.pc = "await" THEN stale ELSE NoSearch
       /\ doc' = r.doc
       /\ rendered' = IF r.renders
                      THEN showCachedResults(r.list, r.activation.query, input)
                      ELSE rendered
       /\ btnDisabled' = r.busy
       /\ UNCHANGED <<now, last, callVars, input, detailVars, toastVars, themeVars,
                      audioVars>>

\* A call of searchSongs with the document localStorage holds.
searchSongsStart(trigger) ==
    /\ searchSongsFrom(doc, trigger)
    /\ UNCHANGED timerVars

\* The search resumes after its await and returns.
searchSongsResume ==
    LET r == searchSongsAfterAwait(search, doc, now)
    IN /\ search' = r.activation
       /\ doc' = r.doc
       /\ rendered' = IF r.renders THEN renderResults(r.list, input, FALSE)
                      ELSE rendered
       /\ btnDisabled' = FALSE
       /\ UNCHANGED <<now, last, callVars, input, started, stale, detailVars,
                      toastVars, timerVars, themeVars, audioVars>>

\* The stale search resumes after its await and returns.
staleSearchResume ==
    LET r == searchSongsAfterAwait(stale, doc, now)
    IN /\ stale' = r.activation
       /\ doc' = r.doc
       /\ rendered' = IF r.renders THEN renderResults(r.list, input, FALSE)
                      ELSE rendered
       /\ btnDisabled' = FALSE
       /\ UNCHANGED <<now, last, callVars, input, started, search, detailVars,
                      toastVars, timerVars, themeVars, audioVars>>

(***************************************************************************)
(* MusicPlayer: showSongDetail.                                            *)
(***************************************************************************)
\* const validSources = ['QQ音乐', '网易云', '酷狗音乐'], and the keys of apiConfig.
validSources == {QQ, NetEase, Kugou}
apiConfig == {QQ, NetEase, Kugou}

\* buildApiUrl(source, query, id): [threw, url].  The query parameter is msg for
\* QQ and gm for the others; n is set when id is truthy (not 0).
buildApiUrl(source, query, id) ==
    IF source \notin apiConfig
    THEN [threw |-> TRUE, url |-> <<>>]
    ELSE [threw |-> FALSE,
          url |-> [api |-> source,
                   param |-> IF source = QQ THEN "msg" ELSE "gm",
                   value |-> encodeURIComponent(query),
                   n |-> IF id # 0 THEN id ELSE 0]]

\* The request showSongDetail is to issue: [threw, cause, url].  The source is
\* checked against validSources, then buildApiUrl checks it against apiConfig.
detailRequestUnchecked(source, query, id) ==
    [threw |-> FALSE, cause |-> "none",
     url |-> [api |-> source, param |-> "query",
              value |-> encodeURIComponent(query), n |-> IF id # 0 THEN id ELSE 0]]
\* A request that is not issued when the cache holds results for the query.
detailRequestUnlessCached(source, query, id) ==
    IF source \notin validSources \/ get(doc, query, now).ret # Null
    THEN [threw |-> TRUE, cause |-> "invalid-source", url |-> <<>>]
    ELSE [threw |-> FALSE, cause |-> "none", url |-> buildApiUrl(source, query, id).url]
detailRequest(source, query, id) ==
    IF source \notin validSources
    THEN [threw |-> TRUE, cause |-> "invalid-source", url |-> <<>>]
    ELSE LET apiUrl == buildApiUrl(source, query, id)
         IN IF apiUrl.threw
            THEN [threw |-> TRUE, cause |-> "unknown-api-source", url |-> <<>>]
            ELSE [threw |-> FALSE, cause |-> "none", url |-> apiUrl.url]

\* The data field of a response that has none.
NoData == [type |-> "undefined"]
\* A JavaScript value is falsy: undefined or the empty string.
Falsy(v) == v = Undefined \/ v = <<>>
\* v ?? d
NullishOr(v, d) == IF v = Undefined THEN d ELSE v

\* The activation of showSongDetail: none yet; suspended at the await; returned.
\* requested: a request was issued.  outcome: how the request settled.
\* notice: the toast it raised, by its cause ("none": no toast, the detail was
\* rendered).
NoDetail == [pc |-> "idle"]
NoOutcome == [status |-> "none"]
RejectedWith(status) == [status |-> "rejected", httpStatus |-> status]

\* A response check that accepts every status code.
responseOkAnyCode(response) == response # Null
\* !(!response || response.code !== 200)
responseOk(response) == response # Null /\ response.code = 200

\* A name check that is never true.
missingNameNever(detailData) == FALSE
\* !detailData.song_name && !detailData.title
missingName(detailData) == Falsy(detailData.song_name) /\ Falsy(detailData.title)
NotShown == [state |-> "initial"]
DetailAwaiting(source, id, query, url) ==
    [pc |-> "await", source |-> source, id |-> id, query |-> query,
     requested |-> TRUE, url |-> url]
DetailReturned(source, id, query, wasRequested, outcome, notice) ==
    [pc |-> "done", source |-> source, id |-> id, query |-> query,
     requested |-> wasRequested, outcome |-> outcome, notice |-> notice]

\* showSongDetail up to its await.
showSongDetailStart(source, id, query) ==
    LET request == detailRequest(source, query, id)
    IN IF request.threw
       THEN \* catch: showToast('获取详情失败: ' + error.message, 'error')
            /\ detail' = DetailReturned(source, id, query, FALSE, NoOutcome,
                                        request.cause)
            /\ UNCHANGED shown
       ELSE /\ detail' = DetailAwaiting(source, id, query, request.url)
            /\ UNCHANGED shown

\* renderSongDetail(detail, source): [notice, shown].
renderSongDetail(detailData, source, before) ==
    LET songName == NullishOr(IF source = QQ THEN detailData.song_name
                              ELSE detailData.title, <<"(unknown song)">>)
        artist == NullishOr(IF source = QQ THEN detailData.song_singer
                            ELSE detailData.singer, <<"(unknown artist)">>)
    IN IF songName = <<>> \/ artist = <<>>
       THEN [notice |-> "incomplete", shown |-> before]
       ELSE [notice |-> "none",
             shown |-> [state |-> "detail", source |-> source,
                        songName |-> songName, artist |-> artist]]

\* showSongDetail after its await, the request rejected with an HTTP status (0:
\* no response, a timeout or a network failure).
showSongDetailRejected(status) ==
    /\ detail' = DetailReturned(detail.source, detail.id, detail.query, TRUE,
                                RejectedWith(status),
                                IF status = 404 THEN "not-found" ELSE "fetch-failed")
    /\ UNCHANGED shown

\* showSongDetail after its await, the request fulfilled with `response`.
showSongDetailResume(response) ==
    LET source == detail.source
        returned(notice) ==
            DetailReturned(source, detail.id, detail.query, TRUE,
                           Fulfilled(response), notice)
    IN IF ~responseOk(response)
       THEN detail' = returned("bad-response") /\ UNCHANGED shown
       ELSE IF source = QQ /\ response.data = NoData
       THEN \* detailData.song_name on undefined: a TypeError
            detail' = returned("type-error") /\ UNCHANGED shown
       ELSE LET detailData == IF source = QQ THEN response.data ELSE response
            IN IF missingName(detailData)
               THEN detail' = returned("missing-name") /\ UNCHANGED shown
               ELSE LET r == renderSongDetail(detailData, source, shown)
                    IN detail' = returned(r.notice) /\ shown' = r.shown

\* The page when its script has run: an empty search box, no search.
SearchPageAtLoad ==
    /\ input = <<>>
    /\ search = NoSearch
    /\ stale = NoSearch
    /\ started = 0
    /\ rendered = NotRendered
    /\ btnDisabled = FALSE
    /\ detail = NoDetail
    /\ shown = NotShown
    /\ toastQueue = <<>>
    /\ isShowingToast = FALSE
    /\ body = <<>>
    /\ toastLog = [called |-> <<>>, shown |-> <<>>]
    /\ timers = <<>>
    /\ sinceInput = 0
    /\ audios = <<>>
    /\ currentAudio = 0
    /\ renders = 0

\* The same, for a visitor who has never chosen a theme.
PageAtLoad ==
    /\ SearchPageAtLoad
    /\ dataTheme = NoTheme
    /\ musicTheme = NoTheme
    /\ themeCall = NoThemeCall

(***************************************************************************)
(* SpecCache: CacheManager under every sequence of calls and clock ticks.  *)
(***************************************************************************)
\* The queries the calls are made with: "a" and "A" differ in the case of an
\* ASCII letter, "U+00E9" and "U+00C9" in the case of a non-ASCII letter.
CacheQueries == {<<"a">>, <<"A">>, <<"U+00E9">>, <<"U+00C9">>}
\* The result list passed to set with a query (opaque to the cache): one per
\* query text, so that "a" and "A" write different lists under one key.
CacheData(q) == {JsArray(<<q>>)}

\* last: the call's kind, arguments, clock reading (at) and outcome; a get also
\* records the set or clear it directly followed (after), a set the keys its sweep
\* evicted for capacity (evicted).
NoCall == [kind |-> "none"]

\* The page may find no document, or one an external actor has corrupted.
InitCache ==
    /\ doc \in {NoDoc, MalformedDoc}
    /\ now = 0
    /\ last = NoCall
    /\ merge = NoMerge
    /\ validation = NoValidation
    /\ PageAtLoad

CallGet(q) ==
    LET r == get(doc, q, now)
    IN /\ doc' = r.doc
       /\ last' = [kind |-> "get", query |-> q, at |-> now,
                   threw |-> r.threw, ret |-> r.ret,
                   after |-> IF last.kind \in {"set", "clear"} THEN last ELSE NoCall]
       /\ UNCHANGED <<now, callVars, pageVars, toastVars, timerVars, themeVars, audioVars>>

CallSet(q, data) ==
    LET r == set(doc, q, data, now)
    IN /\ doc' = r.doc
       /\ last' = [kind |-> "set", query |-> q, at |-> now,
                   threw |-> r.threw, data |-> data, evicted |-> r.evicted]
       /\ UNCHANGED <<now, callVars, pageVars, toastVars, timerVars, themeVars, audioVars>>

CallDeleteKey(q) ==
    LET r == deleteKey(doc, q)
    IN /\ doc' = r.doc
       /\ last' = [kind |-> "deleteKey", query |-> q, at |-> now, threw |-> r.threw]
       /\ UNCHANGED <<now, callVars, pageVars, toastVars, timerVars, themeVars, audioVars>>

CallClear ==
    /\ doc' = clear(doc)
    /\ last' = [kind |-> "clear", at |-> now, threw |-> FALSE]
    /\ UNCHANGED <<now, callVars, pageVars, toastVars, timerVars, themeVars, audioVars>>

Tick ==
    /\ now < MaxTime
    /\ now' = now + 1
    /\ UNCHANGED <<doc, last, callVars, pageVars, toastVars, timerVars, themeVars,
                   audioVars>>

NextCache ==
    \/ \E q \in CacheQueries : CallGet(q)
    \/ \E q \in CacheQueries : \E data \in CacheData(q) : CallSet(q, data)
    \/ \E q \in CacheQueries : CallDeleteKey(q)
    \/ CallClear
    \/ Tick

SpecCache == InitCache /\ [][NextCache]_vars

(***************************************************************************)
(* Claims about CacheManager, checked under SpecCache.                     *)
(***************************************************************************)
Cache == ParsedOrEmpty(doc)
Entries(cache) == {cache[i] : i \in 1..Len(cache)}
\* The entries of `cache` that are not older than the TTL at clock reading t.
NotExpiredAt(cache, t) == {e \in Entries(cache) : t - e.timestamp <= expireHours}

\* C1: immediately after every set call returns, the store holds at most
\* maxItems entries.
C1_AtMostMaxItemsAfterSet ==
    (last.kind = "set" /\ ~last.threw) => Len(Cache) <= maxItems

\* The get was called directly after a set that returned, less than the TTL
\* after it.
GetFollowsSet ==
    /\ last.kind = "get"
    /\ last.after.kind = "set"
    /\ ~last.after.threw
    /\ last.at - last.after.at < expireHours

\* C2: get(q) right after set(q, d), less than the TTL later and with no other
\* call in between, returns exactly d.
C2_GetAfterSetReturnsData ==
    (GetFollowsSet /\ last.query = last.after.query)
        => (~last.threw /\ last.ret = last.after.data)

\* C2 happens: a set, then the clock advanced, then a get of the same query.
C2_Witness ==
    /\ GetFollowsSet
    /\ last.query = last.after.query
    /\ last.at > last.after.at
    /\ last.ret = last.after.data

\* C3: get never returns the data of an entry created more than expireHours
\* before the call, though the entry is in the persisted document: it returns
\* null.
C3_GetNeverReturnsExpired ==
    (/\ last.kind = "get"
     /\ ~last.threw
     /\ \E e \in Entries(Cache) :
            /\ e.key = generateKey(last.query)
            /\ last.at - e.timestamp > expireHours)
        => last.ret = Null

\* C3 happens: a get found its entry in the document, expired.
C3_Witness ==
    /\ last.kind = "get"
    /\ ~last.threw
    /\ last.ret = Null
    /\ \E e \in Entries(Cache) :
            /\ e.key = generateKey(last.query)
            /\ last.at - e.timestamp > expireHours

\* This step is a set call that returned.
SetStep ==
    /\ last'.kind = "set"
    /\ ~last'.threw
    /\ (last' # last \/ doc' # doc)

\* The sweep of this set evicts for capacity exactly the entries of oldest
\* last-access time among the non-expired ones: as many as exceed maxItems,
\* none of them accessed later than an entry it keeps.
EvictsOldestAccessed ==
    LET fresh == NotExpiredAt(Cache, now)
        evicted == {e \in fresh : e.key \in last'.evicted}
        kept == fresh \ evicted
    IN /\ last'.evicted \subseteq {e.key : e \in fresh}
       /\ Cardinality(evicted) =
            IF Cardinality(fresh) > maxItems THEN Cardinality(fresh) - maxItems ELSE 0
       /\ \A e \in evicted : \A k \in kept : e.lru <= k.lru
       /\ {e.key : e \in Entries(doc'.obj)} =
            {k.key : k \in kept} \cup {generateKey(last'.query)}

\* The entry that the call before this one, a successful get, read.
ReadEntry == CHOOSE e \in Entries(Cache) : e.key = generateKey(last.query)
JustRead ==
    /\ last.kind = "get"
    /\ ~last.threw
    /\ last.ret # Null
    /\ ReadEntry \in NotExpiredAt(Cache, now)

\* C4 (as claimed): the sweep evicts exactly the non-expired entries of oldest
\* last-access time, and an entry read by a successful get after the others
\* were written survives an eviction of entries not read since.
C4_ReadEntrySurvivesEviction ==
    [][SetStep =>
        /\ EvictsOldestAccessed
        /\ (JustRead /\ last'.evicted # {}) => ReadEntry.key \notin last'.evicted
    ]_vars

\* C4 (amended): the same, for a get made at a clock reading later than the
\* last access of every other non-expired entry.
C4_LaterReadEntrySurvivesEviction ==
    [][SetStep =>
        /\ EvictsOldestAccessed
        /\ (/\ JustRead
            /\ last'.evicted # {}
            /\ \A e \in NotExpiredAt(Cache, now) \ {ReadEntry} : e.lru < ReadEntry.lru)
              => ReadEntry.key \notin last'.evicted
    ]_vars

\* C4 happens: a set evicted an entry for capacity and kept one that a get
\* had read after it was written.
C4_Witness ==
    /\ last.kind = "set"
    /\ last.evicted # {}
    /\ \E e \in Entries(Cache) :
            /\ e.key # generateKey(last.query)
            /\ e.lru > e.timestamp

\* Two queries that differ only in letter case / only in the case of ASCII
\* letters (and do differ).
SameLetter(c1, c2) ==
    \/ c1 = c2
    \/ {c1, c2} \in {{"a", "A"}, {"U+00E9", "U+00C9"}}
SameAsciiLetter(c1, c2) == c1 = c2 \/ {c1, c2} = {"a", "A"}
DifferOnlyInCase(q1, q2) ==
    /\ q1 # q2
    /\ Len(q1) = Len(q2)
    /\ \A i \in 1..Len(q1) : SameLetter(q1[i], q2[i])
DifferOnlyInAsciiCase(q1, q2) ==
    /\ q1 # q2
    /\ Len(q1) = Len(q2)
    /\ \A i \in 1..Len(q1) : SameAsciiLetter(q1[i], q2[i])

\* C5 (as claimed): set with a query, then get with a query that differs from
\* it only in letter case, returns the data that was set.
C5_KeyIsCaseInsensitive ==
    (GetFollowsSet /\ DifferOnlyInCase(last.query, last.after.query))
        => (~last.threw /\ last.ret = last.after.data)

\* C5 (amended): the same for queries that differ only in the case of ASCII
\* letters.
C5_KeyIsAsciiCaseInsensitive ==
    (GetFollowsSet /\ DifferOnlyInAsciiCase(last.query, last.after.query))
        => (~last.threw /\ last.ret = last.after.data)

\* C5 happens: set("a", d) and then get("A") returned d.
C5_Witness ==
    /\ GetFollowsSet
    /\ DifferOnlyInAsciiCase(last.query, last.after.query)
    /\ last.ret = last.after.data

\* C9: with malformed JSON in the persisted document, get, set and deleteKey
\* treat the store as empty and do not throw.
C9_MalformedDocIsEmptyStore ==
    last.kind \in {"get", "set", "deleteKey"} => ~last.threw

\* The entries of `cache` older than the TTL at clock reading t.
ExpiredAt(cache, t) == Entries(cache) \ NotExpiredAt(cache, t)

\* After a set returns, the document holds no entry older than the TTL.
NoExpiredAfterSet ==
    (last.kind = "set" /\ ~last.threw) => ExpiredAt(Cache, last.at) = {}

\* This step is a get call that returned, on the key of an expired entry.
GetStepOnExpired ==
    /\ last'.kind = "get"
    /\ ~last'.threw
    /\ last' # last
    /\ \E e \in ExpiredAt(Cache, now) : e.key = generateKey(last'.query)

\* C16 (as claimed): no entry older than the TTL survives a set or a get that
\* observes it: none is in the document after a set returns, and the entry
\* of a get's key, if expired, is not in the document after the get returns.
C16_NoExpiredSurvivesSetOrGet ==
    /\ NoExpiredAfterSet
    /\ (last.kind = "get" /\ ~last.threw) =>
          \A e \in ExpiredAt(Cache, last.at) : e.key # generateKey(last.query)

\* C16 (amended): no entry older than the TTL is in the document after a set
\* returns; a get on the key of an expired entry returns null and leaves the
\* document as it was, the expired entry included.
C16_NoExpiredSurvivesSet ==
    /\ []NoExpiredAfterSet
    /\ [][GetStepOnExpired => (last'.ret = Null /\ doc' = doc)]_vars

\* C16 happens: a get returned null on an expired entry that is still in the
\* document, next to an entry that is not expired.
C16_Witness ==
    /\ last.kind = "get"
    /\ ~last.threw
    /\ last.ret = Null
    /\ \E e \in ExpiredAt(Cache, last.at) : e.key = generateKey(last.query)
    /\ NotExpiredAt(Cache, last.at) # {}

\* C17: the sweep of set has two phases.  It removes every expired entry;
\* then, when more than maxItems entries remain, it removes entries of
\* smallest last-access time until maxItems remain, and otherwise it removes
\* no entry that is not expired.  (The document after the set is what the
\* sweep kept, and the entry that the set wrote.)
C17_SweepIsTwoPhase ==
    [][SetStep =>
        LET live == NotExpiredAt(Cache, now)
            key == generateKey(last'.query)
            after == {e.key : e \in Entries(doc'.obj)}
        IN /\ \A e \in ExpiredAt(Cache, now) : e.key # key => e.key \notin after
           /\ Cardinality(live) <= maxItems =>
                 after = {e.key : e \in live} \cup {key}
           /\ Cardinality(live) > maxItems =>
                 \E removed \in SUBSET live :
                    /\ Cardinality(removed) = Cardinality(live) - maxItems
                    /\ \A r \in removed : \A k \in live \ removed : r.lru <= k.lru
                    /\ after = {k.key : k \in live \ removed} \cup {key}
    ]_vars

\* C17 happens: a set found more than maxItems entries that are not expired and
\* removed one of them, which was not the entry of its own key.
C17_Witness ==
    /\ last.kind = "set"
    /\ ~last.threw
    /\ Cardinality(last.evicted) = 1
    /\ Len(Cache) = maxItems
    /\ generateKey(last.query) \notin last.evicted

\* This step is a deleteKey call.
DeleteKeyStep == last'.kind = "deleteKey" /\ last' # last

\* C23: deleteKey(query) removes the entry under the key of the query and
\* leaves every other entry as it was; when there is no entry for the query
\* it removes nothing; it raises no error.
C23_DeleteKeyRemovesOnlyItsEntry ==
    [][DeleteKeyStep =>
        /\ ~last'.threw
        /\ doc'.kind = "json"
        /\ doc'.obj = SelectSeq(Cache, LAMBDA e : e.key # generateKey(last'.query))
    ]_vars

\* This step is a call other than set that returns with the document empty.
StaysEmptyStep ==
    /\ last' # last
    /\ last'.kind \in {"get", "deleteKey", "clear"}
    /\ ~ParseThrows(doc) /\ Cache = <<>>

\* C24: clear removes the whole document, from every state: the document then
\* holds no entry, and it holds none after any call that is not a set, so
\* that get returns null for every query until the next set.
C24_ClearRemovesDocument ==
    /\ [](last.kind = "clear" => doc = NoDoc)
    /\ []((last.kind = "get" /\ last.after.kind = "clear") =>
             (~last.threw /\ last.ret = Null))
    /\ [][StaysEmptyStep =>
             /\ ~ParseThrows(doc') /\ doc'.obj = <<>>
             /\ last'.kind = "get" => (~last'.threw /\ last'.ret = Null)
       ]_vars

\* C24 happens: time has passed, and a get directly after a clear found
\* nothing.
C24_Witness ==
    /\ last.kind = "get"
    /\ last.after.kind = "clear"
    /\ last.at > 0
    /\ last.ret = Null
    /\ doc = NoDoc

\* This step is a get call that returned data.
GetHitStep ==
    /\ last'.kind = "get"
    /\ last' # last
    /\ ~last'.threw
    /\ last'.ret # Null

\* C25: a successful get changes nothing but the last-access time of the
\* entry it reads: the data and the creation time of that entry and every
\* other entry are as before, and the entry it reads was created at most
\* expireHours before the get.
C25_GetTouchesOnlyLru ==
    [][GetHitStep =>
        /\ Len(doc'.obj) = Len(Cache)
        /\ \A i \in 1..Len(Cache) :
              IF Cache[i].key = generateKey(last'.query)
              THEN /\ doc'.obj[i] = [Cache[i] EXCEPT !.lru = now]
                   /\ now - doc'.obj[i].timestamp <= expireHours
              ELSE doc'.obj[i] = Cache[i]
    ]_vars

\* C25 happens: a get read an entry some time after the entry was written,
\* and the document holds another entry.
C25_Witness ==
    /\ last.kind = "get"
    /\ ~last.threw
    /\ last.ret # Null
    /\ Len(Cache) > 1
    /\ \E e \in Entries(Cache) :
          /\ e.key = generateKey(last.query)
          /\ e.lru = last.at
          /\ e.lru > e.timestamp

(***************************************************************************)
(* SpecMerge: mergeResults on the concatenation of three source lists.     *)
(***************************************************************************)
Item(source, id, title, artist) ==
    [source |-> source, id |-> id, title |-> title, artist |-> artist,
     quality |-> "standard"]

\* What one source may list: two spellings of one song that differ in letter
\* case only, and another song.
SourceItems(source) ==
    { Item(source, 1, <<"S">>, <<"X">>),
      Item(source, 2, <<"s">>, <<"x">>),
      Item(source, 3, <<"t">>, <<"X">>) }

SeqsUpTo(S, n) == UNION {[1..k -> S] : k \in 0..n}

InitMerge ==
    /\ doc = NoDoc
    /\ now = 0
    /\ last = NoCall
    /\ PageAtLoad
    /\ validation = NoValidation
    /\ merge \in [state : {"called"},
                  api1Data : SeqsUpTo(SourceItems(QQ), MaxSourceLen),
                  api2Data : SeqsUpTo(SourceItems(NetEase), MaxSourceLen),
                  api3Data : SeqsUpTo(SourceItems(Kugou), MaxSourceLen)]

\* mergeResults([...api1Data, ...api2Data, ...api3Data])
MergeCall ==
    /\ merge.state = "called"
    /\ merge' = [state |-> "returned",
                 data |-> merge.api1Data \o merge.api2Data \o merge.api3Data,
                 mergedData |-> mergeResults(merge.api1Data \o merge.api2Data
                                               \o merge.api3Data)]
    /\ UNCHANGED <<doc, now, last, validation, pageVars, toastVars, timerVars,
                   themeVars, audioVars>>

NextMerge == MergeCall

SpecMerge == InitMerge /\ [][NextMerge]_vars

\* The composite key of the claim: lowercase(title) | lowercase(artist).
CompositeKey(item) == toLowerCase(item.title) \o <<"|">> \o toLowerCase(item.artist)

\* The positions of `data` whose item is the first with its composite key.
FirstSeen(data) ==
    {i \in 1..Len(data) : \A j \in 1..(i - 1) : CompositeKey(data[j]) # CompositeKey(data[i])}

\* C6: mergeResults keeps, for each composite key, only the first item with
\* that key: no two items of the output share a key, and the output is the
\* items of the first-seen positions, in their order.
C6_MergeKeepsFirstSeen ==
    merge.state = "returned" =>
        LET data == merge.data
            out == merge.mergedData
            first == FirstSeen(data)
        IN /\ \A a, b \in 1..Len(out) : a # b => CompositeKey(out[a]) # CompositeKey(out[b])
           /\ Len(out) = Cardinality(first)
           /\ \A i \in first :
                out[Cardinality({j \in first : j <= i})] = data[i]

\* C6 happens: a later item with the key of an earlier item from a different
\* source was dropped, and an item after it was kept.
C6_Witness ==
    /\ merge.state = "returned"
    /\ \E i, j, k \in 1..Len(merge.data) :
            /\ i < j /\ j < k
            /\ CompositeKey(merge.data[i]) = CompositeKey(merge.data[j])
            /\ merge.data[i].source # merge.data[j].source
            /\ merge.data[i].title # merge.data[j].title
            /\ k \in FirstSeen(merge.data)
    /\ Len(merge.mergedData) < Len(merge.data)

(***************************************************************************)
(* SpecValidate: one call of a source validator on a raw response, or of   *)
(* mapQuality on a quality code.                                           *)
(***************************************************************************)
\* The longest list of raw items in a response.
MaxRawLen == 2
\* The largest quality code.
MaxBr == 9

\* A raw item: null, or a song whose title and singer may be missing
\* (undefined) and whose title may be the empty string.  A code of 0 in a
\* response stands for a response with no code field (undefined and 0 are both
\* falsy and both differ from 200).
RawItems(source) ==
    {Null} \cup
    (IF source = QQ
     THEN [n : {1}, song_title : {Undefined, <<>>, <<"S">>},
           song_singer : {Undefined, <<"X">>}, quality : {"", "HQ"}]
     ELSE [n : {1}, title : {Undefined, <<>>, <<"S">>},
           singer : {Undefined, <<"X">>}, br : {0, 2, MaxBr}])
ValidationResponses(source) ==
    {Null} \cup
    {RawResponse(code, data) :
        code \in {0, 200, 500},
        data \in {NoData, [type |-> "string"]}
                 \cup {JsArray(items) : items \in SeqsUpTo(RawItems(source), MaxRawLen)}}

InitValidate ==
    /\ doc = NoDoc
    /\ now = 0
    /\ last = NoCall
    /\ merge = NoMerge
    /\ PageAtLoad
    /\ \/ \E i \in 1..Len(Sources) : \E response \in ValidationResponses(Sources[i]) :
            validation = [state |-> "called", fn |-> "validateData",
                          source |-> Sources[i], response |-> response]
       \/ \E br \in (0 - 1)..MaxBr :
            validation = [state |-> "called", fn |-> "mapQuality", br |-> br]

\* this.validateDataAPIn(response)
ValidateCall ==
    /\ validation.state = "called"
    /\ validation.fn = "validateData"
    /\ LET r == validated(validation.source, Fulfilled(validation.response))
       IN validation' = [state |-> "returned", fn |-> "validateData",
                         source |-> validation.source,
                         response |-> validation.response,
                         threw |-> r.threw, value |-> r.value]
    /\ UNCHANGED <<cacheVars, merge, pageVars, toastVars, timerVars, themeVars, audioVars>>

\* this.mapQuality(br)
MapQualityCall ==
    /\ validation.state = "called"
    /\ validation.fn = "mapQuality"
    /\ validation' = [state |-> "returned", fn |-> "mapQuality",
                      br |-> validation.br, label |-> mapQuality(validation.br)]
    /\ UNCHANGED <<cacheVars, merge, pageVars, toastVars, timerVars, themeVars, audioVars>>

NextValidate == ValidateCall \/ MapQualityCall

SpecValidate == InitValidate /\ [][NextValidate]_vars

\* A validator has returned or thrown.
Validated == validation.state = "returned" /\ validation.fn = "validateData"

\* The raw response does not have the shape its source is expected to answer
\* with: there is no response, the status field is missing or is not 200 (QQ
\* and NetEase carry one), the payload is not a list, or an item of the list is
\* not an object.
ShapeMismatch(source, response) ==
    \/ response = Null
    \/ source # Kugou /\ response.code # 200
    \/ response.data.type # "array"
    \/ \E i \in 1..Len(response.data.items) : response.data.items[i] = Null

\* C18: each source validator fails soft: for a raw response with a shape
\* mismatch it returns the empty list and does not raise.
C18_ValidatorsFailSoft ==
    (Validated /\ ShapeMismatch(validation.source, validation.response)) =>
        (~validation.threw /\ validation.value = <<>>)

\* The title and the artist of a raw item (undefined when missing).
RawTitle(source, song) == IF source = QQ THEN song.song_title ELSE song.title
RawArtist(source, song) == IF source = QQ THEN song.song_singer ELSE song.singer
\* The positions of the raw items that have a non-empty title and artist.
CompleteItems(source, items) ==
    {i \in 1..Len(items) :
        /\ items[i] # Null
        /\ RawTitle(source, items[i]) \notin {Undefined, <<>>}
        /\ RawArtist(source, items[i]) \notin {Undefined, <<>>}}

\* C19: every item a source validator produces has a non-empty title and a
\* non-empty artist: the raw items missing either are dropped, so the validator
\* produces one item for each raw item that has both.
C19_ItemsHaveTitleAndArtist ==
    (Validated /\ ~validation.threw /\ validation.value # <<>>) =>
        /\ \A i \in 1..Len(validation.value) :
              /\ validation.value[i].title \notin {Undefined, <<>>}
              /\ validation.value[i].artist \notin {Undefined, <<>>}
        /\ Len(validation.value) =
              Cardinality(CompleteItems(validation.source,
                                        validation.response.data.items))

\* The labels of the quality codes 1 to 8.
QualityLabels ==
    <<"standard", "high", "lossless", "Hi-Res", "hd-surround",
      "immersive-surround", "master", "HQ">>

InputValues == {<<>>, <<" ">>, <<"a">>, <<"b">>}

\* What a source answers when its request is fulfilled: no song or one song.
\* The song of NetEase is that of QQ in another letter case.
RawSong(source) ==
    CASE source = QQ ->
            [n |-> 1, song_title |-> <<"S">>, song_singer |-> <<"X">>, quality |-> ""]
      [] source = NetEase -> [n |-> 1, title |-> <<"s">>, singer |-> <<"x">>, br |-> 2]
      [] source = Kugou -> [n |-> 2, title |-> <<"t">>, singer |-> <<"X">>, br |-> 0]
RawResponses(source) ==
    { RawResponse(200, JsArray(<<>>)), RawResponse(200, JsArray(<<RawSong(source)>>)) }

\* The document the page finds: none, one that is not JSON, or one written by
\* another actor whose entry for "a" holds an object where a list is expected.
NonListDoc ==
    JsonDoc(<<[key |-> generateKey(<<"a">>), data |-> [type |-> "object"],
               timestamp |-> 0, lru |-> 0]>>)

Init ==
    /\ doc \in {NoDoc, MalformedDoc, NonListDoc}
    /\ now = 0
    /\ last = NoCall
    /\ merge = NoMerge
    /\ validation = NoValidation
    /\ PageAtLoad

\* An input event on the search box: the box has the new value, and the
\* handler replaces the debounce timer.
TypeInput(value) ==
    /\ input' = value
    /\ timers' = setTimeout(clearTimeout(timers))
    /\ sinceInput' = 0
    /\ UNCHANGED <<cacheVars, callVars, search, stale, started, rendered, btnDisabled,
                   detailVars, toastVars, themeVars, audioVars>>

CanStartSearch == search.pc # "await" /\ started < MaxSearches

\* A click on the search button; a disabled button gets no click.
ClickSearch ==
    /\ ~btnDisabled
    /\ CanStartSearch
    /\ searchSongsStart("button")

\* The Enter key in the search box.
PressEnter ==
    /\ CanStartSearch
    /\ searchSongsStart("enter")

\* One request of the search in flight settles.
Settle(source, outcome) ==
    /\ search.pc = "await"
    /\ search.resp[source] = Pending
    /\ search' = [search EXCEPT !.resp[source] = outcome]
    /\ UNCHANGED <<cacheVars, callVars, input, stale, started, rendered, btnDisabled,
                   detailVars, toastVars, timerVars, themeVars, audioVars>>

\* All three requests have settled: searchSongs goes on.
AllSettled ==
    /\ search.pc = "await"
    /\ PromiseAllSettledResolved(search.resp)
    /\ searchSongsResume

Next ==
    \/ \E value \in InputValues : TypeInput(value)
    \/ ClickSearch
    \/ PressEnter
    \/ \E i \in 1..Len(Sources) : Settle(Sources[i], Rejected)
    \/ \E i \in 1..Len(Sources) :
         \E value \in RawResponses(Sources[i]) : Settle(Sources[i], Fulfilled(value))
    \/ AllSettled

Spec == Init /\ [][Next]_vars

(***************************************************************************)
(* The search fan-out.                                                     *)
(***************************************************************************)
\* The source answered, with a body its validator accepts.
Succeeded(source) ==
    /\ search.resp[source].status = "fulfilled"
    /\ ~validated(source, search.resp[source]).threw

\* The returned search issued its three requests; one was rejected (a failure
\* or a timeout) and the other two succeeded.
OneRejectedTwoSucceeded ==
    /\ search.pc = "done"
    /\ search.requested = {QQ, NetEase, Kugou}
    /\ \E failed \in search.requested :
         /\ search.resp[failed].status = "rejected"
         /\ \A source \in search.requested \ {failed} : Succeeded(source)

SucceededResults(source) ==
    IF Succeeded(source) THEN validated(source, search.resp[source]).value ELSE <<>>
UnionOfSucceeded ==
    SucceededResults(QQ) \o SucceededResults(NetEase) \o SucceededResults(Kugou)

\* `data` without the items whose composite key an earlier item has.
Deduplicated(data) ==
    LET first == FirstSeen(data)
    IN [k \in 1..Cardinality(first) |->
           data[CHOOSE i \in first : Cardinality({j \in first : j <= i}) = k]]

\* C7: when one source's request is rejected or times out and the other two
\* succeed, searchSongs raises no error notice and renders the deduplicated
\* union of the results of the two sources that succeeded.
C7_PartialFailureRendersUnion ==
    OneRejectedTwoSucceeded =>
        /\ search.notice = "none"
        /\ rendered.state = "list"
        /\ ~rendered.cached
        /\ rendered.items = Deduplicated(UnionOfSucceeded)

\* C7 happens: the third source was rejected, the other two each returned a
\* song, the two songs differ in letter case only, and one was rendered.
C7_Witness ==
    /\ OneRejectedTwoSucceeded
    /\ search.resp[Kugou].status = "rejected"
    /\ Len(UnionOfSucceeded) = 2
    /\ rendered.state = "list"
    /\ Len(rendered.items) = 1
    /\ rendered.items[1].source = QQ

\* C10: a search whose query is empty, or only white space, issues no network
\* request and ends with the no-results behaviour: no error, an empty list.
C10_EmptyQueryIssuesNoRequest ==
    (search.pc # "idle" /\ search.query = <<>>) =>
        /\ search.requested = {}
        /\ search.pc = "done"
        /\ search.notice # "error"
        /\ rendered.state = "list" /\ rendered.items = <<>>

\* CacheManager.get returned data to the search.
GotCachedData == search.pc # "idle" /\ search.cachedData # Null

\* C11: when CacheManager.get returns data at the start of searchSongs, the
\* search returns at once: that data is rendered, no network request is
\* issued and CacheManager.set is not called.
C11_CacheHitSkipsNetwork ==
    GotCachedData =>
        /\ search.pc = "done"
        /\ rendered.state = "list"
        /\ rendered.cached
        /\ rendered.items = search.cachedData.items
        /\ search.requested = {}
        /\ search.calls = <<"get", "render">>

\* C11 happens: a search rendered the songs that an earlier search had cached.
C11_Witness ==
    /\ GotCachedData
    /\ search.cachedData.items # <<>>
    /\ rendered.state = "list"
    /\ rendered.items = search.cachedData.items
    /\ Cache # <<>>

\* The search issued its requests and every one of them was rejected.
AllRejected ==
    /\ search.requested # {}
    /\ \A source \in search.requested : search.resp[source].status = "rejected"

\* C12: a search that went to the network shows an error notice exactly when
\* the request of every source was rejected or timed out.
C12_ErrorExactlyOnTotalFailure ==
    (search.pc = "done" /\ search.requested # {}) =>
        (search.notice = "error" <=> AllRejected)

\* The document holds, for the query of the search, an entry that is not
\* expired and whose payload is not a list.
NonListEntry ==
    \E e \in NotExpiredAt(Cache, now) :
        e.key = generateKey(search.query) /\ e.data.type # "array"

\* C14: an entry that is not expired and whose payload is not a list is a
\* cache miss: get gives the search nothing, the search goes on to the three
\* requests and raises no error.
C14_NonListPayloadIsMiss ==
    (search.pc # "idle" /\ NonListEntry) =>
        /\ search.cachedData = Null
        /\ search.requested = {QQ, NetEase, Kugou}
        /\ search.pc = "done" => search.notice # "error"

\* This step is the return of a search that had missed the cache and awaited
\* its requests.
ResumeStep == search.pc = "await" /\ search'.pc = "done"

\* C15: on a cache miss searchSongs calls CacheManager.set(query, merged)
\* exactly when the deduplicated list is not empty, and it does so before it
\* renders; when the list is empty the document is left as it was.
C15_CacheWriteIffNonEmpty ==
    [][(ResumeStep /\ search'.notice # "error") =>
        LET merged == Deduplicated(UnionOfSucceeded)
        IN IF merged # <<>>
           THEN /\ search'.calls = <<"get", "fetch", "set", "render">>
                /\ \E e \in Entries(doc'.obj) :
                      /\ e.key = generateKey(search.query)
                      /\ e.data = JsArray(merged)
           ELSE /\ search'.calls = <<"get", "fetch", "render">>
                /\ doc' = doc
    ]_vars

\* C15 happens: a search that missed the cache has stored and then rendered a
\* list that is not empty.
C15_Witness ==
    /\ search.pc = "done"
    /\ search.calls = <<"get", "fetch", "set", "render">>
    /\ rendered.state = "list"
    /\ rendered.items # <<>>
    /\ \E e \in Entries(Cache) :
          e.key = generateKey(search.query) /\ e.data = JsArray(rendered.items)

\* C26: on a cache miss searchSongs has issued the requests to all three
\* sources when it waits, and it goes on to validation and merge only when all
\* three have settled: a rejected request does not end the wait for the others.
C26_FanOutWaitsForAll ==
    /\ search.pc = "await" =>
          /\ search.requested = {QQ, NetEase, Kugou}
          /\ search.calls = <<"get", "fetch">>
    /\ (search.pc = "done" /\ search.requested # {}) =>
          /\ search.requested = {QQ, NetEase, Kugou}
          /\ \A source \in search.requested :
                search.resp[source].status \in {"fulfilled", "rejected"}

\* C26 happens: the first source was rejected, the search went on only with
\* the answers of the other two, and it rendered them.
C26_Witness ==
    /\ search.pc = "done"
    /\ search.requested = {QQ, NetEase, Kugou}
    /\ search.resp[QQ].status = "rejected"
    /\ search.resp[NetEase].status = "fulfilled"
    /\ search.resp[Kugou].status = "fulfilled"
    /\ search.calls = <<"get", "fetch", "set", "render">>

(***************************************************************************)
(* SpecOverlap: the page, with a second search started while the first is  *)
(* still in flight.  The Enter key starts a search at any time; the button *)
(* is enabled again as soon as any search returns.                         *)
(***************************************************************************)
OverlapInputs == {<<"a">>, <<"b">>}
\* What a source answers here when its request is fulfilled: its one song.
OverlapResponse(source) == RawResponse(200, JsArray(<<RawSong(source)>>))

InitOverlap ==
    /\ doc = NoDoc
    /\ now = 0
    /\ last = NoCall
    /\ merge = NoMerge
    /\ validation = NoValidation
    /\ PageAtLoad

\* searchSongs is called while a search is in flight, and no older one is.
StartInFlight(trigger) ==
    /\ search.pc = "await"
    /\ stale.pc # "await"
    /\ started < MaxSearches
    /\ trigger = "button" => ~btnDisabled
    /\ searchSongsStart(trigger)

\* One request of the stale search settles.
SettleStale(source, outcome) ==
    /\ stale.pc = "await"
    /\ stale.resp[source] = Pending
    /\ stale' = [stale EXCEPT !.resp[source] = outcome]
    /\ UNCHANGED <<cacheVars, callVars, input, search, started, rendered, btnDisabled,
                   detailVars, toastVars, timerVars, themeVars, audioVars>>

\* All three requests of the stale search have settled: it goes on.
StaleAllSettled ==
    /\ stale.pc = "await"
    /\ PromiseAllSettledResolved(stale.resp)
    /\ staleSearchResume

NextOverlap ==
    \/ \E value \in OverlapInputs : TypeInput(value)
    \/ ClickSearch
    \/ PressEnter
    \/ \E trigger \in {"button", "enter"} : StartInFlight(trigger)
    \/ \E i \in 1..Len(Sources) : Settle(Sources[i], Rejected)
    \/ \E i \in 1..Len(Sources) :
         Settle(Sources[i], Fulfilled(OverlapResponse(Sources[i])))
    \/ \E i \in 1..Len(Sources) : SettleStale(Sources[i], Rejected)
    \/ \E i \in 1..Len(Sources) :
         SettleStale(Sources[i], Fulfilled(OverlapResponse(Sources[i])))
    \/ AllSettled
    \/ StaleAllSettled

SpecOverlap == InitOverlap /\ [][NextOverlap]_vars

\* The list a returned search had to show: the cached list, or the
\* deduplicated union of what its sources answered.
ResultOf(activation) ==
    IF activation.requested = {}
    THEN activation.cachedData.items
    ELSE Deduplicated(validated(QQ, activation.resp[QQ]).value
                      \o validated(NetEase, activation.resp[NetEase]).value
                      \o validated(Kugou, activation.resp[Kugou]).value)

\* A search was started while an older one was in flight, and both have
\* returned without an error.
BothCompleted ==
    /\ stale.pc = "done" /\ stale.notice # "error"
    /\ search.pc = "done" /\ search.notice # "error"

\* C13: when a second search is started while a first is in flight, then after
\* both have completed, in either order, the rendered list is the result of
\* the newer search.
C13_NewerSearchWins ==
    BothCompleted =>
        (rendered.state = "list" /\ rendered.items = ResultOf(search))

(***************************************************************************)
(* SpecDetail: showSongDetail is called with any source, song id and       *)
(* query; its request is rejected or fulfilled.                            *)
(***************************************************************************)
DetailSources == validSources \cup {"unknown-source"}
DetailIds == {0, 1, 2}
DetailQueries == {<<"a">>, <<"U+00E9">>}

\* The song object a detail response carries.
DetailSongs ==
    [song_name : {Undefined, <<"S">>}, title : {Undefined, <<"t">>},
     song_singer : {Undefined, <<"X">>}, singer : {<<>>, <<"x">>}]
\* A song with every field.
FullSong ==
    [song_name |-> <<"S">>, title |-> <<"t">>, song_singer |-> <<"X">>,
     singer |-> <<"x">>]
\* The bodies a detail request is fulfilled with: null, and a body with code
\* 200 or, carrying a full song, with code 500 or with no code (0).  QQ nests
\* the song under data, which may be missing; the others are the song.
DetailResponses(source) ==
    {Null}
    \cup (IF source = QQ
          THEN {[type |-> "object", code |-> 200, data |-> song] :
                    song \in DetailSongs \cup {NoData}}
               \cup {[type |-> "object", code |-> code, data |-> song] :
                        code \in {0, 500}, song \in {FullSong, NoData}}
          ELSE {[type |-> "object", code |-> 200, song_name |-> song.song_name,
                 title |-> song.title, song_singer |-> song.song_singer,
                 singer |-> song.singer] : song \in DetailSongs}
               \cup {[type |-> "object", code |-> code,
                      song_name |-> FullSong.song_name, title |-> FullSong.title,
                      song_singer |-> FullSong.song_singer,
                      singer |-> FullSong.singer] : code \in {0, 500}})
HttpStatuses == {0, 404, 500}

\* The document an earlier search for "a" has left.
SearchedDoc ==
    JsonDoc(<<[key |-> generateKey(<<"a">>),
               data |-> JsArray(<<Item(QQ, 1, <<"S">>, <<"X">>)>>),
               timestamp |-> 0, lru |-> 0]>>)

InitDetail ==
    /\ doc \in {NoDoc, SearchedDoc}
    /\ now = 0
    /\ last = NoCall
    /\ merge = NoMerge
    /\ validation = NoValidation
    /\ PageAtLoad

CallShowSongDetail(source, id, query) ==
    /\ detail.pc # "await"
    /\ showSongDetailStart(source, id, query)
    /\ UNCHANGED <<cacheVars, callVars, searchVars, toastVars, timerVars, themeVars,
                   audioVars>>

DetailRejects(status) ==
    /\ detail.pc = "await"
    /\ showSongDetailRejected(status)
    /\ UNCHANGED <<cacheVars, callVars, searchVars, toastVars, timerVars, themeVars,
                   audioVars>>

DetailFulfils(response) ==
    /\ detail.pc = "await"
    /\ response \in DetailResponses(detail.source)
    /\ showSongDetailResume(response)
    /\ UNCHANGED <<cacheVars, callVars, searchVars, toastVars, timerVars, themeVars,
                   audioVars>>

NextDetail ==
    \/ \E source \in DetailSources, id \in DetailIds, query \in DetailQueries :
         CallShowSongDetail(source, id, query)
    \/ \E status \in HttpStatuses : DetailRejects(status)
    \/ \E source \in validSources : \E response \in DetailResponses(source) :
         DetailFulfils(response)

SpecDetail == InitDetail /\ [][NextDetail]_vars

\* The three known source identifiers.
KnownSources == {"QQ", "NetEase", "Kugou"}

\* C8: showSongDetail called with a source that is not one of the three known
\* identifiers fails at once with an unknown-source error: it never waits for a
\* response and it issues no network request.
C8_UnknownSourceFailsWithoutRequest ==
    (detail.pc # "idle" /\ detail.source \notin KnownSources) =>
        /\ detail.pc = "done"
        /\ ~detail.requested
        /\ detail.notice \in {"invalid-source", "unknown-api-source"}

\* C8 happens: after a detail was shown, a call with an unknown source has
\* returned.
C8_Witness ==
    /\ detail.pc = "done"
    /\ detail.source = "unknown-source"
    /\ ~detail.requested
    /\ shown.state = "detail"

\* This step is the return of showSongDetail from its await.
DetailReturnStep == detail.pc = "await" /\ detail'.pc = "done"

\* The request did not bring a response with the success status: it was
\* rejected (a transport failure, an HTTP error status, a timeout), or its
\* body is null, or the code of the body is not 200.
NoSuccessEnvelope(outcome) ==
    \/ outcome.status = "rejected"
    \/ outcome.value = Null
    \/ outcome.value.code # 200

\* The error notice that names the cause of such an outcome.
CauseNotice(outcome) ==
    IF outcome.status = "rejected"
    THEN (IF outcome.httpStatus = 404 THEN "not-found" ELSE "fetch-failed")
    ELSE "bad-response"

\* C21: showSongDetail renders a detail only when the response carries code
\* 200; for any other code, a missing response, a transport failure or a
\* timeout it renders nothing and reports an error that names the cause.
C21_DetailNeedsSuccessEnvelope ==
    [][DetailReturnStep =>
        /\ detail'.notice = "none" => ~NoSuccessEnvelope(detail'.outcome)
        /\ NoSuccessEnvelope(detail'.outcome) =>
              /\ shown' = shown
              /\ detail'.notice = CauseNotice(detail'.outcome)
    ]_vars

\* C21 happens: a response with code 500 and a full song was turned down
\* while the panel showed an earlier detail.
C21_Witness ==
    /\ detail.pc = "done"
    /\ detail.outcome.status = "fulfilled"
    /\ detail.outcome.value # Null
    /\ detail.outcome.value.code = 500
    /\ detail.notice = "bad-response"
    /\ shown.state = "detail"

\* The body has code 200 and neither of the two song-name fields (for QQ,
\* whose song is under data, also when data is missing).
SuccessWithoutName(source, outcome) ==
    /\ ~NoSuccessEnvelope(outcome)
    /\ LET answer == outcome.value
       IN IF source = "QQ"
          THEN \/ answer.data = NoData
               \/ answer.data.song_name \in {Undefined, <<>>}
                  /\ answer.data.title \in {Undefined, <<>>}
          ELSE /\ answer.song_name \in {Undefined, <<>>}
               /\ answer.title \in {Undefined, <<>>}

\* C22: when a response with code 200 has neither song_name nor title,
\* showSongDetail fails with an error and renders no detail, whatever the
\* source.
C22_DetailNeedsSongName ==
    [][(DetailReturnStep /\ SuccessWithoutName(detail.source, detail'.outcome)) =>
        /\ detail'.notice \in {"missing-name", "type-error"}
        /\ shown' = shown
    ]_vars

\* C22 happens: a NetEase response with code 200, a singer and no name was
\* turned down.
C22_Witness ==
    /\ detail.pc = "done"
    /\ detail.source = "NetEase"
    /\ SuccessWithoutName(detail.source, detail.outcome)
    /\ detail.outcome.value.singer = <<"x">>
    /\ detail.notice = "missing-name"

\* C29: showSongDetail leaves the persisted cache document unchanged on
\* every path, and every call for a known source issues a network request:
\* none is answered from the cache.
C29_DetailNeverCached ==
    /\ [][detail' # detail => doc' = doc]_vars
    /\ []((detail.pc # "idle" /\ detail.source \in KnownSources) => detail.requested)

\* C29 happens: a detail was rendered for a song of the query whose search
\* results are in the cache, after a network request.
C29_Witness ==
    /\ detail.pc = "done"
    /\ detail.requested
    /\ detail.notice = "none"
    /\ shown.state = "detail"
    /\ \E e \in Entries(Cache) : e.key = generateKey(detail.query)

(***************************************************************************)
(* SpecInterleave: the page of a visitor who searched for "a" before, with *)
(* the clear-cache button and the refresh button of a cached list clicked  *)
(* at any time, also while a search is waiting on the network.  Of the     *)
(* requests, that to the first source may fail; the others are answered.   *)
(***************************************************************************)
InterleaveInputs == {<<"a">>, <<"b">>}

InitInterleave ==
    /\ doc \in {NoDoc, SearchedDoc}
    /\ now = 0
    /\ last = NoCall
    /\ merge = NoMerge
    /\ validation = NoValidation
    /\ PageAtLoad

\* A click on the clear-cache button: CacheManager.clear().
ClickClearCache ==
    /\ doc' = clear(doc)
    /\ UNCHANGED <<now, last, callVars, pageVars, toastVars, timerVars, themeVars,
                   audioVars>>

\* A click on the refresh button of the cached list: CacheManager.deleteKey of
\* the query the list was shown for, then searchSongs() with the search box as
\* it is now.  When deleteKey throws, the handler ends there.
ClickRefresh ==
    /\ rendered.state = "list"
    /\ rendered.cached
    /\ stale.pc # "await"
    /\ started < MaxSearches + 1
    /\ LET r == deleteKey(doc, rendered.refreshes)
       IN /\ ~r.threw
          /\ searchSongsFrom(r.doc, "refresh")
          /\ UNCHANGED timerVars

NextInterleave ==
    \/ \E value \in InterleaveInputs : TypeInput(value)
    \/ ClickSearch
    \/ PressEnter
    \/ ClickClearCache
    \/ ClickRefresh
    \/ Settle(QQ, Rejected)
    \/ \E i \in 1..Len(Sources) :
         Settle(Sources[i], Fulfilled(OverlapResponse(Sources[i])))
    \/ SettleStale(QQ, Rejected)
    \/ \E i \in 1..Len(Sources) :
         SettleStale(Sources[i], Fulfilled(OverlapResponse(Sources[i])))
    \/ AllSettled
    \/ StaleAllSettled

SpecInterleave == InitInterleave /\ [][NextInterleave]_vars

StaleResumeStep == stale.pc = "await" /\ stale'.pc = "done"
\* The entries the search `activation` found when it began and that are no
\* longer in the document: a clear or a deleteKey removed them meanwhile.
RemovedSince(activation) ==
    {e \in Entries(ParsedOrEmpty(activation.docRead)) :
        e.key \notin {x.key : x \in Entries(Cache)}}

\* C27: the set a search makes when it returns from the network is based on
\* the document as it is then: no entry that a clear or a deleteKey removed
\* while the search was waiting is in the document afterwards.
C27_SetKeepsRemovedEntriesOut ==
    [][/\ ResumeStep =>
            RemovedSince(search) \cap Entries(ParsedOrEmpty(doc')) = {}
       /\ StaleResumeStep =>
            RemovedSince(stale) \cap Entries(ParsedOrEmpty(doc')) = {}]_vars

\* C27 happens: the search for "b" found the entry of "a", which was removed
\* while it waited; the search has stored its own list, and that entry alone.
C27_Witness ==
    /\ search.pc = "done"
    /\ search.calls = <<"get", "fetch", "set", "render">>
    /\ search.docRead = SearchedDoc
    /\ search.query = <<"b">>
    /\ {e.key : e \in Entries(Cache)} = {generateKey(<<"b">>)}

(***************************************************************************)
(* SpecTimeout: the page with the steps of Utils.safeFetch told apart.     *)
(* The timer set by safeFetch runs until fetch() resolves with the         *)
(* response's status and headers; safeFetch clears it there, and then      *)
(* reads the body.  The timer and the promise jobs are fair; the network   *)
(* is not.                                                                 *)
(***************************************************************************)
TimeoutInputs == {<<"a">>, <<"b">>}

\* fetch() has resolved with an ok status, clearTimeout(timeoutId) has run and
\* response.json() is reading the body.
Reading == [status |-> "reading"]
\* The request was rejected with the AbortError of controller.abort().
Aborted == [status |-> "rejected", name |-> "AbortError"]

InitTimeout ==
    /\ doc = NoDoc
    /\ now = 0
    /\ last = NoCall
    /\ merge = NoMerge
    /\ validation = NoValidation
    /\ PageAtLoad

\* fetch() resolves with an ok status: the timer is cleared.
HeadersArrive(source) ==
    /\ search.pc = "await"
    /\ search.resp[source] = Pending
    /\ search' = [search EXCEPT !.resp[source] = Reading]
    /\ UNCHANGED <<cacheVars, callVars, input, stale, started, rendered, btnDisabled,
                   detailVars, toastVars, timerVars, themeVars, audioVars>>

\* The timer fires while fetch() is pending: controller.abort() rejects it
\* with an AbortError.
TimeoutFires(source) ==
    /\ search.pc = "await"
    /\ search.resp[source] = Pending
    /\ search' = [search EXCEPT !.resp[source] = Aborted]
    /\ UNCHANGED <<cacheVars, callVars, input, stale, started, rendered, btnDisabled,
                   detailVars, toastVars, timerVars, themeVars, audioVars>>

\* response.json() settles: fulfilled with the parsed body, or rejected (the
\* body is not JSON, the connection broke).
BodyRead(source, outcome) ==
    /\ search.pc = "await"
    /\ search.resp[source] = Reading
    /\ search' = [search EXCEPT !.resp[source] = outcome]
    /\ UNCHANGED <<cacheVars, callVars, input, stale, started, rendered, btnDisabled,
                   detailVars, toastVars, timerVars, themeVars, audioVars>>

NextTimeout ==
    \/ \E value \in TimeoutInputs : TypeInput(value)
    \/ ClickSearch
    \/ PressEnter
    \/ \E i \in 1..Len(Sources) : HeadersArrive(Sources[i])
    \/ \E i \in 1..Len(Sources) : Settle(Sources[i], Rejected)
    \/ \E i \in 1..Len(Sources) : TimeoutFires(Sources[i])
    \/ \E i \in 1..Len(Sources) :
         BodyRead(Sources[i], Fulfilled(OverlapResponse(Sources[i])))
    \/ \E i \in 1..Len(Sources) : BodyRead(Sources[i], Rejected)
    \/ AllSettled

SpecTimeout ==
    /\ InitTimeout
    /\ [][NextTimeout]_vars
    /\ \A source \in validSources : WF_vars(TimeoutFires(source))
    /\ WF_vars(AllSettled)

\* C28: every request ends within its timeout, as a failure of that call
\* alone when the timeout elapses, so every search that waits on the network
\* eventually returns and enables the search button again.
C28_EverySearchEnds ==
    (search.pc = "await") ~> (search.pc = "done" /\ ~btnDisabled)

(***************************************************************************)
(* SpecToast: Utils.showToast called at any time, and the timers of the    *)
(* toast on display.                                                       *)
(***************************************************************************)
\* The messages: those of a cached list, of a failed search and of a cleared
\* cache.
ToastMessages == {"cached", "error", "cleared"}

InitToast ==
    /\ doc = NoDoc
    /\ now = 0
    /\ last = NoCall
    /\ merge = NoMerge
    /\ validation = NoValidation
    /\ PageAtLoad

\* Utils.showToast(message), called by any handler.
CallShowToast(message) ==
    /\ Len(toastLog.called) < MaxToasts
    /\ ToastsBecome(showToast(toastQueue, isShowingToast, body, message), body,
                    Append(toastLog.called, message))
    /\ UNCHANGED <<cacheVars, callVars, pageVars, timerVars, themeVars, audioVars>>

\* The 10 ms timer of the i-th toast element: classList.add('toast-visible').
ToastShows(i) ==
    /\ body[i].phase = "added"
    /\ body' = [body EXCEPT ![i].phase = "visible"]
    /\ UNCHANGED <<cacheVars, callVars, pageVars, toastQueue, isShowingToast, toastLog,
                   timerVars, themeVars, audioVars>>

\* Its 3000 ms timer: classList.remove('toast-visible').
ToastFades(i) ==
    /\ body[i].phase = "visible"
    /\ body' = [body EXCEPT ![i].phase = "fading"]
    /\ UNCHANGED <<cacheVars, callVars, pageVars, toastQueue, isShowingToast, toastLog,
                   timerVars, themeVars, audioVars>>

\* The 300 ms timer after that: toast.remove(); this.processToastQueue().
ToastRemoved(i) ==
    /\ body[i].phase = "fading"
    /\ LET others == SubSeq(body, 1, i - 1) \o SubSeq(body, i + 1, Len(body))
       IN ToastsBecome(processToastQueue(toastQueue, others), others, toastLog.called)
    /\ UNCHANGED <<cacheVars, callVars, pageVars, timerVars, themeVars, audioVars>>

NextToast ==
    \/ \E message \in ToastMessages : CallShowToast(message)
    \/ \E i \in 1..Len(body) : ToastShows(i)
    \/ \E i \in 1..Len(body) : ToastFades(i)
    \/ \E i \in 1..Len(body) : ToastRemoved(i)

SpecToast == InitToast /\ [][NextToast]_vars

\* C30: with the toast queue at most one toast is in the document at any
\* time, and the toasts are displayed in the order of the showToast calls.
C30_OneToastInCallOrder ==
    /\ Len(body) <= 1
    /\ Len(toastLog.shown) <= Len(toastLog.called)
    /\ toastLog.shown = SubSeq(toastLog.called, 1, Len(toastLog.shown))
    /\ toastLog.called = toastLog.shown \o toastQueue

\* C30 happens: three calls while the first toast was on display; the second
\* is displayed after the first was removed, the third waits.
C30_Witness ==
    /\ toastLog.called = <<"error", "cached", "cleared">>
    /\ toastLog.shown = <<"error", "cached">>
    /\ toastQueue = <<"cleared">>
    /\ Len(body) = 1
    /\ body[1].message = "cached"
    /\ isShowingToast

\* SpecToastFair: SpecToast with timers that fire.  A timer set with setTimeout
\* runs once its delay has passed.
ToastTimer ==
    \E i \in 1..Len(body) : ToastShows(i) \/ ToastFades(i) \/ ToastRemoved(i)
SpecToastFair == SpecToast /\ WF_vars(ToastTimer)

\* The first n messages passed to showToast: displayed, and removed again.
Removed == Len(toastLog.shown) - Len(body)

\* C31: every message passed to showToast is eventually displayed and later
\* removed, the timers firing; and whenever isShowingToast is false the queue
\* is empty and no toast is in the document.
C31_EveryToastShownAndRemoved ==
    /\ [](~isShowingToast => (toastQueue = <<>> /\ body = <<>>))
    /\ \A n \in 1..MaxToasts :
          (Len(toastLog.called) >= n) ~> (Len(toastLog.shown) >= n)
    /\ \A n \in 1..MaxToasts :
          (Len(toastLog.shown) >= n) ~> (Removed >= n)

\* C31 happens: three messages were passed while the first was on display,
\* and the last of them has been displayed and removed.
C31_Witness ==
    /\ Len(toastLog.called) = MaxToasts
    /\ toastLog.shown = toastLog.called
    /\ toastLog.called[1] # toastLog.called[MaxToasts]
    /\ Removed = MaxToasts
    /\ ~isShowingToast

(***************************************************************************)
(* SpecDebounce: the search box with its debounce timer, and time.  A      *)
(* timer runs when it is due, before more time passes.  Of the requests,   *)
(* that to the first source may fail; the others are answered.             *)
(***************************************************************************)
DebounceInputs == {<<" ">>, <<"a">>, <<"b">>}

InitDebounce ==
    /\ doc = NoDoc
    /\ now = 0
    /\ last = NoCall
    /\ merge = NoMerge
    /\ validation = NoValidation
    /\ PageAtLoad

\* A quarter of a second passes with no event.
TimePasses ==
    /\ sinceInput < MaxIdle
    /\ \A i \in 1..Len(timers) : timers[i] < DebounceDelay
    /\ timers' = [i \in 1..Len(timers) |-> timers[i] + 1]
    /\ sinceInput' = sinceInput + 1
    /\ UNCHANGED <<cacheVars, callVars, pageVars, toastVars, themeVars, audioVars>>

\* The oldest timer is due: if (e.target.value.trim()) this.searchSongs().
DebounceFires ==
    /\ Len(timers) > 0
    /\ timers[1] = DebounceDelay
    /\ timers' = Tail(timers)
    /\ UNCHANGED sinceInput
    /\ IF trim(input) # <<>>
       THEN /\ started < MaxSearches
            /\ ~(search.pc = "await" /\ stale.pc = "await")
            /\ searchSongsFrom(doc, "debounce")
       ELSE UNCHANGED <<cacheVars, callVars, pageVars, toastVars, themeVars, audioVars>>

NextDebounce ==
    \/ \E value \in DebounceInputs : TypeInput(value)
    \/ TimePasses
    \/ DebounceFires
    \/ Settle(QQ, Rejected)
    \/ \E i \in 1..Len(Sources) :
         Settle(Sources[i], Fulfilled(OverlapResponse(Sources[i])))
    \/ SettleStale(QQ, Rejected)
    \/ \E i \in 1..Len(Sources) :
         SettleStale(Sources[i], Fulfilled(OverlapResponse(Sources[i])))
    \/ AllSettled
    \/ StaleAllSettled

SpecDebounce == InitDebounce /\ [][NextDebounce]_vars

\* A debounce timer runs in this step.
TimerRunsStep == Len(timers') < Len(timers)

\* C32: at most one debounce timer is pending, the one set by the last input
\* event (which cancelled the one before); a timer runs 500 ms after the last
\* input event, and it starts a search, one, for the trimmed input exactly
\* when the trimmed input is not empty.
C32_InputIsDebounced ==
    /\ [](Len(timers) <= 1)
    /\ [](Len(timers) > 0 => timers[Len(timers)] = sinceInput)
    /\ [][TimerRunsStep =>
            /\ sinceInput = DebounceDelay
            /\ timers' = <<>>
            /\ trim(input) # <<>> =>
                  /\ started' = started + 1
                  /\ search'.trigger = "debounce"
                  /\ search'.query = trim(input)
            /\ trim(input) = <<>> => UNCHANGED <<started, search, stale, themeVars,
                               audioVars>>]_vars

\* C32 happens: the timer has run 500 ms after the last input event and has
\* started the second search, for "b", while the first is in flight.
C32_Witness ==
    /\ search.pc = "await"
    /\ search.trigger = "debounce"
    /\ search.query = <<"b">>
    /\ stale.pc = "await"
    /\ stale.trigger = "debounce"
    /\ timers = <<>>
    /\ sinceInput = DebounceDelay

(***************************************************************************)
(* SpecTheme: ThemeManager, with themes chosen from the switcher, the      *)
(* preview items or any other caller, and the page loaded again.           *)
(***************************************************************************)
\* The ten themes, and four texts that are none of them.
ThemeInputs == availableThemes \cup {"neon", "Light", "", "undefined"}

\* The stored theme is absent or one an earlier visit has stored.
InitTheme ==
    /\ doc = NoDoc
    /\ now = 0
    /\ last = NoCall
    /\ merge = NoMerge
    /\ validation = NoValidation
    /\ SearchPageAtLoad
    /\ dataTheme = NoTheme
    /\ musicTheme \in availableThemes \cup {NoTheme}
    /\ themeCall = NoThemeCall

CallChangeTheme(theme) ==
    /\ ThemeBecomes(changeTheme(theme, dataTheme, musicTheme), theme, "changeTheme")
    /\ UNCHANGED <<cacheVars, callVars, pageVars, toastVars, timerVars, audioVars>>

\* The page is loaded again: init() calls applySavedTheme(), on a document
\* element without the attribute.
ApplySavedTheme ==
    /\ LET savedTheme == IF musicTheme = NoTheme THEN "light" ELSE musicTheme
       IN ThemeBecomes(changeTheme(savedTheme, NoTheme, musicTheme), savedTheme,
                       "applySavedTheme")
    /\ UNCHANGED <<cacheVars, callVars, pageVars, toastVars, timerVars, audioVars>>

NextTheme ==
    \/ \E theme \in ThemeInputs : CallChangeTheme(theme)
    \/ ApplySavedTheme

SpecTheme == InitTheme /\ [][NextTheme]_vars

\* C33: changeTheme with a theme outside availableThemes changes neither the
\* applied nor the stored theme and raises a warning; the stored theme, when
\* present, is always one of the ten available themes.
C33_InvalidThemeChangesNothing ==
    /\ (themeCall.kind = "changeTheme" /\ themeCall.theme \notin availableThemes) =>
          /\ themeCall.notice = "warning"
          /\ dataTheme = themeCall.applied
          /\ musicTheme = themeCall.stored
    /\ musicTheme # NoTheme => musicTheme \in availableThemes
    /\ Cardinality(availableThemes) = 10

\* C33 happens: the dark theme was applied and stored, and a call with a
\* theme that is none of the ten has left both as they were.
C33_Witness ==
    /\ themeCall.kind = "changeTheme"
    /\ themeCall.theme = "neon"
    /\ themeCall.notice = "warning"
    /\ dataTheme = "dark"
    /\ musicTheme = "dark"

(***************************************************************************)
(* The refresh button, checked under SpecInterleave.                       *)
(***************************************************************************)
\* This step is a click on the refresh button of the cached list.
RefreshStep == started' = started + 1 /\ search'.trigger = "refresh"
CacheKeys(d) == {e.key : e \in Entries(ParsedOrEmpty(d))}

\* C34: a click on the refresh button of the cached list shown for q deletes
\* the entry of q only, and the search it starts is a search for q that goes
\* to the network; the entries of the other queries stay.
C34_RefreshSearchesShownQuery ==
    [][RefreshStep =>
         /\ search'.query = rendered.refreshes
         /\ search'.pc = "await"
         /\ search'.requested = {QQ, NetEase, Kugou}
         /\ CacheKeys(doc') = CacheKeys(doc) \ {generateKey(rendered.refreshes)}]_vars

(***************************************************************************)
(* SpecCacheSize: CacheManager from an empty store, called with queries of *)
(* four different keys, two more than the capacity.  The clock advances in *)
(* pauses longer than the TTL.                                             *)
(***************************************************************************)
SizeQueries == {<<"a">>, <<"b">>, <<"U+00E9">>, <<"U+00C9">>}

InitCacheSize ==
    /\ doc = NoDoc
    /\ now = 0
    /\ last = NoCall
    /\ merge = NoMerge
    /\ validation = NoValidation
    /\ PageAtLoad

\* No call for longer than the TTL: every entry in the store has expired.
LongPause ==
    /\ now + expireHours + 1 <= MaxTime
    /\ now' = now + expireHours + 1
    /\ UNCHANGED <<doc, last, callVars, pageVars, toastVars, timerVars, themeVars,
                   audioVars>>

NextCacheSize ==
    \/ \E q \in SizeQueries : CallGet(q)
    \/ \E q \in SizeQueries : \E data \in CacheData(q) : CallSet(q, data)
    \/ \E q \in SizeQueries : CallDeleteKey(q)
    \/ CallClear
    \/ LongPause

SpecCacheSize == InitCacheSize /\ [][NextCacheSize]_vars

RenderedBySearch ==
    /\ search.pc = "done"
    /\ search.calls[Len(search.calls)] = "render"
    /\ rendered.state = "list"

\* C36: the items of the rendered list carry, as the query of their detail
\* lookup, the query of the search that produced them.
C36_ItemsCarrySearchQuery ==
    (RenderedBySearch /\ Len(rendered.items) > 0) => rendered.query = search.query

(***************************************************************************)
(* The busy state of the search button, checked under SpecOverlap.         *)
(***************************************************************************)
\* C37: the search button is disabled, showing the busy label, whenever a
\* search is in flight, also when two searches overlap.
C37_ButtonBusyWhileInFlight ==
    (search.pc = "await" \/ stale.pc = "await") => btnDisabled

(***************************************************************************)
(* SpecAudio: details rendered one after another, with or without a stream *)
(* URL, and the listener playing or pausing the audio element on the page. *)
(***************************************************************************)
AudioSongs == {1, 2}

InitAudio ==
    /\ doc = NoDoc
    /\ now = 0
    /\ last = NoCall
    /\ merge = NoMerge
    /\ validation = NoValidation
    /\ PageAtLoad

\* renderSongDetail reaches its innerHTML assignment.
RenderDetail(song, musicUrl) ==
    /\ renders < MaxRenders
    /\ renders' = renders + 1
    /\ LET r == renderAudio(audios, currentAudio, song, musicUrl)
       IN audios' = r.audios /\ currentAudio' = r.current
    /\ UNCHANGED <<cacheVars, callVars, pageVars, toastVars, timerVars, themeVars>>

\* The controls of the audio element on the page, or a click on a lyric line:
\* play().
PlayAudio(i) ==
    /\ audios[i].inDocument
    /\ ~audios[i].playing
    /\ audios' = [audios EXCEPT ![i].playing = TRUE]
    /\ UNCHANGED <<cacheVars, callVars, pageVars, toastVars, timerVars, themeVars,
                   currentAudio, renders>>

\* A playing element is paused by its controls, or its song ends.
StopAudio(i) ==
    /\ audios[i].playing
    /\ audios' = [audios EXCEPT ![i] = pause(audios[i], "user")]
    /\ UNCHANGED <<cacheVars, callVars, pageVars, toastVars, timerVars, themeVars,
                   currentAudio, renders>>

NextAudio ==
    \/ \E song \in AudioSongs : \E musicUrl \in BOOLEAN : RenderDetail(song, musicUrl)
    \/ \E i \in 1..Len(audios) : PlayAudio(i)
    \/ \E i \in 1..Len(audios) : StopAudio(i)

SpecAudio == InitAudio /\ [][NextAudio]_vars

Playing == {i \in 1..Len(audios) : audios[i].playing}

====
